---- MODULE Spec2Model ----
(***************************************************************************)
(* gigabroom: the classifier (is_deletable), the walking scan engine       *)
(* (scan_directory), the result cache (load_cache / save_cache) and the    *)
(* caching front end (perform_scan), as state machines over a small file   *)
(* system.                                                                 *)
(*                                                                         *)
(* A file name is a sequence of characters, a path the sequence of its     *)
(* components below "/", so that suffix and substring tests are computed   *)
(* as the code computes them.                                              *)
(***************************************************************************)
EXTENDS Integers, Sequences, FiniteSets, TLC

VARIABLES
    tree,       \* the file system: path -> [kind, len, mtime]
    now,        \* the system clock, in ticks since the Unix epoch
    cacheFile,  \* ~/.gigabroom-cache.json: its state or its JSON content
    ret         \* the last call of the program and what it returned

vars == <<tree, now, cacheFile, ret>>

----------------------------------------------------------------------------
(* File names the source mentions. *)
N_target == <<"t","a","r","g","e","t">>
N_node_modules == <<"n","o","d","e","_","m","o","d","u","l","e","s">>
N_pycache == <<"_","_","p","y","c","a","c","h","e","_","_">>
N_dot_pytest_cache == <<".","p","y","t","e","s","t","_","c","a","c","h","e">>
N_dot_tox == <<".","t","o","x">>
N_venv == <<"v","e","n","v">>
N_dot_venv == <<".","v","e","n","v">>
N_build == <<"b","u","i","l","d">>
N_dot_gradle == <<".","g","r","a","d","l","e">>
N_vendor == <<"v","e","n","d","o","r">>
N_CMakeFiles == <<"C","M","a","k","e","F","i","l","e","s">>
N_bin == <<"b","i","n">>
N_obj == <<"o","b","j">>
N_packages == <<"p","a","c","k","a","g","e","s">>
N_dot_build == <<".","b","u","i","l","d">>
N_DerivedData == <<"D","e","r","i","v","e","d","D","a","t","a">>
N_dot_idea == <<".","i","d","e","a">>
N_dot_vscode == <<".","v","s","c","o","d","e">>
N_dot_vs == <<".","v","s">>
N_dot_bundle == <<".","b","u","n","d","l","e">>
N_dot_DS_Store == <<".","D","S","_","S","t","o","r","e">>
N_Thumbs_db == <<"T","h","u","m","b","s",".","d","b">>
N_desktop_ini == <<"d","e","s","k","t","o","p",".","i","n","i">>
N_dot_localized == <<".","l","o","c","a","l","i","z","e","d">>
N_dot_sass_cache == <<".","s","a","s","s","-","c","a","c","h","e">>
N_dot_parcel_cache == <<".","p","a","r","c","e","l","-","c","a","c","h","e">>
N_dot_cache == <<".","c","a","c","h","e">>
N_dist == <<"d","i","s","t">>
N_out == <<"o","u","t">>
N_Cargo_toml == <<"C","a","r","g","o",".","t","o","m","l">>
N_pom_xml == <<"p","o","m",".","x","m","l">>
N_build_gradle == <<"b","u","i","l","d",".","g","r","a","d","l","e">>
N_build_gradle_kts == <<"b","u","i","l","d",".","g","r","a","d","l","e",".","k","t","s">>
N_composer_json == <<"c","o","m","p","o","s","e","r",".","j","s","o","n">>
N_go_mod == <<"g","o",".","m","o","d">>
N_go_sum == <<"g","o",".","s","u","m">>
N_Package_swift == <<"P","a","c","k","a","g","e",".","s","w","i","f","t">>
N_Gemfile == <<"G","e","m","f","i","l","e">>
N_Gemfile_lock == <<"G","e","m","f","i","l","e",".","l","o","c","k">>
N_a_out == <<"a",".","o","u","t">>
N_Unknown == <<"U","n","k","n","o","w","n">>

(* Suffixes and path fragments the source tests for. *)
X_csproj == <<".","c","s","p","r","o","j">>
X_vbproj == <<".","v","b","p","r","o","j">>
X_fsproj == <<".","f","s","p","r","o","j">>
X_sln == <<".","s","l","n">>
X_pyc == <<".","p","y","c">>
X_pyo == <<".","p","y","o">>
X_o == <<".","o">>
X_a == <<".","a">>
X_log == <<".","l","o","g">>
X_tmp == <<".","t","m","p">>
X_temp == <<".","t","e","m","p">>
S_npm_cacache == <<"/",".","n","p","m","/","_","c","a","c","a","c","h","e">>
S_cache_pip == <<"/",".","c","a","c","h","e","/","p","i","p">>
S_cache_yarn == <<"/",".","c","a","c","h","e","/","y","a","r","n">>
S_m2_repository == <<"/",".","m","2","/","r","e","p","o","s","i","t","o","r","y">>

(* A byte that is not valid UTF-8 (OsStr::to_str fails on a name holding it). *)
BadByte == "0xFF"

----------------------------------------------------------------------------
(* Strings and paths. *)

Last(s) == s[Len(s)]

Min(S) == CHOOSE x \in S : \A y \in S : x <= y

EndsWith(s, suffix) ==
    /\ Len(s) >= Len(suffix)
    /\ SubSeq(s, Len(s) - Len(suffix) + 1, Len(s)) = suffix

Contains(s, sub) ==
    \E i \in 1..(Len(s) - Len(sub) + 1) : SubSeq(s, i, i + Len(sub) - 1) = sub

IsUtf8(name) == \A i \in 1..Len(name) : name[i] # BadByte

(* Path::parent of a path with at least one component. *)
Parent(p) == SubSeq(p, 1, Len(p) - 1)

Join(p, name) == Append(p, name)

(* Path::starts_with: whole components. *)
StartsWith(p, base) == Len(p) >= Len(base) /\ SubSeq(p, 1, Len(base)) = base

StrictlyUnder(p, d) == Len(p) > Len(d) /\ StartsWith(p, d)

(* The path as a string: "/" before every component; "/" itself for the root. *)
RECURSIVE Flat(_)
Flat(p) == IF p = <<>> THEN <<>> ELSE Flat(Parent(p)) \o <<"/">> \o Last(p)

PathStr(p) == IF p = <<>> THEN <<"/">> ELSE Flat(p)

PathIsUtf8(p) == \A i \in 1..Len(p) : IsUtf8(p[i])

----------------------------------------------------------------------------
(* File system probes. *)

Exists(t, p) == p \in DOMAIN t

IsDir(t, p) == Exists(t, p) /\ t[p].kind = "dir"

IsFile(t, p) == Exists(t, p) /\ t[p].kind = "file"

(* The names read_dir yields for p; the empty set when p cannot be read. *)
ReadDirNames(t, p) ==
    IF IsDir(t, p) THEN {Last(q) : q \in {q \in DOMAIN t : q # <<>> /\ Parent(q) = p}} ELSE {}

----------------------------------------------------------------------------
(* The classifier: scanner.rs, is_deletable and its probes. *)

NoneC == "None"

Categories ==
    {"RustTarget", "NodeModules", "PythonCache", "PHPVendor", "RubyGems", "MavenTarget",
     "GradleBuild", "GoVendor", "CCache", "DotNetBuild", "SwiftBuild", "IDECache",
     "OSJunk", "TempFiles", "PackageCache", "BuildCache"}

(* A probe that asks for no marker. *)
is_cargo_target_unchecked(t, path) == TRUE

(* utils.rs, is_cargo_target. *)
is_cargo_target(t, path) == Exists(t, Join(Parent(path), N_Cargo_toml))

is_maven_target(t, path) == Exists(t, Join(Parent(path), N_pom_xml))

is_gradle_build(t, path) ==
    \/ Exists(t, Join(Parent(path), N_build_gradle))
    \/ Exists(t, Join(Parent(path), N_build_gradle_kts))

is_composer_vendor(t, path) == Exists(t, Join(Parent(path), N_composer_json))

is_go_vendor(t, path) ==
    \/ Exists(t, Join(Parent(path), N_go_mod))
    \/ Exists(t, Join(Parent(path), N_go_sum))

(* The probe without the check of the sibling folder. *)
is_dotnet_build_unpaired(t, path) ==
    \E s \in ReadDirNames(t, Parent(path)) :
        /\ IsUtf8(s)
        /\ EndsWith(s, X_csproj) \/ EndsWith(s, X_vbproj) \/ EndsWith(s, X_fsproj)

is_dotnet_build(t, path) ==
    LET dir_name == IF IsUtf8(Last(path)) THEN Last(path) ELSE <<>>
        p == Parent(path)
        has_project_file ==
            \E s \in ReadDirNames(t, p) :
                /\ IsUtf8(s)
                /\ EndsWith(s, X_csproj) \/ EndsWith(s, X_vbproj) \/ EndsWith(s, X_fsproj)
    IN  IF ~has_project_file THEN FALSE
        ELSE IF dir_name = N_bin THEN Exists(t, Join(p, N_obj))
        ELSE IF dir_name = N_obj THEN Exists(t, Join(p, N_bin))
        ELSE FALSE

is_dotnet_packages(t, path) ==
    /\ Len(path) >= 2
    /\ \E s \in ReadDirNames(t, Parent(Parent(path))) : IsUtf8(s) /\ EndsWith(s, X_sln)

is_swift_build(t, path) == Exists(t, Join(Parent(path), N_Package_swift))

is_ruby_bundler(t, path) ==
    \/ Exists(t, Join(Parent(path), N_Gemfile))
    \/ Exists(t, Join(Parent(path), N_Gemfile_lock))

(* The arms of the match on file_name, in source order: the name matched,   *)
(* whether the guard asks for is_dir, the probe of the guard, the category. *)
MatchArms ==
    << [name |-> N_target,           dir |-> TRUE,  probe |-> "cargo",    cat |-> "RustTarget"],
       [name |-> N_node_modules,     dir |-> TRUE,  probe |-> "none",     cat |-> "NodeModules"],
       [name |-> N_pycache,          dir |-> TRUE,  probe |-> "none",     cat |-> "PythonCache"],
       [name |-> N_dot_pytest_cache, dir |-> TRUE,  probe |-> "none",     cat |-> "PythonCache"],
       [name |-> N_dot_tox,          dir |-> TRUE,  probe |-> "none",     cat |-> "PythonCache"],
       [name |-> N_venv,             dir |-> TRUE,  probe |-> "none",     cat |-> "PythonCache"],
       [name |-> N_dot_venv,         dir |-> TRUE,  probe |-> "none",     cat |-> "PythonCache"],
       [name |-> N_target,           dir |-> TRUE,  probe |-> "maven",    cat |-> "MavenTarget"],
       [name |-> N_build,            dir |-> TRUE,  probe |-> "gradle",   cat |-> "GradleBuild"],
       [name |-> N_dot_gradle,       dir |-> TRUE,  probe |-> "none",     cat |-> "GradleBuild"],
       [name |-> N_vendor,           dir |-> TRUE,  probe |-> "composer", cat |-> "PHPVendor"],
       [name |-> N_vendor,           dir |-> TRUE,  probe |-> "go",       cat |-> "GoVendor"],
       [name |-> N_CMakeFiles,       dir |-> TRUE,  probe |-> "none",     cat |-> "CCache"],
       [name |-> N_bin,              dir |-> TRUE,  probe |-> "dotnet",   cat |-> "DotNetBuild"],
       [name |-> N_obj,              dir |-> TRUE,  probe |-> "dotnet",   cat |-> "DotNetBuild"],
       [name |-> N_packages,         dir |-> TRUE,  probe |-> "packages", cat |-> "DotNetBuild"],
       [name |-> N_dot_build,        dir |-> TRUE,  probe |-> "swift",    cat |-> "SwiftBuild"],
       [name |-> N_DerivedData,      dir |-> TRUE,  probe |-> "none",     cat |-> "SwiftBuild"],
       [name |-> N_dot_idea,         dir |-> TRUE,  probe |-> "none",     cat |-> "IDECache"],
       [name |-> N_dot_vscode,       dir |-> TRUE,  probe |-> "none",     cat |-> "IDECache"],
       [name |-> N_dot_vs,           dir |-> TRUE,  probe |-> "none",     cat |-> "IDECache"],
       [name |-> N_vendor,           dir |-> TRUE,  probe |-> "bundler",  cat |-> "RubyGems"],
       [name |-> N_dot_bundle,       dir |-> TRUE,  probe |-> "none",     cat |-> "RubyGems"],
       [name |-> N_dot_DS_Store,     dir |-> FALSE, probe |-> "none",     cat |-> "OSJunk"],
       [name |-> N_Thumbs_db,        dir |-> FALSE, probe |-> "none",     cat |-> "OSJunk"],
       [name |-> N_desktop_ini,      dir |-> FALSE, probe |-> "none",     cat |-> "OSJunk"],
       [name |-> N_dot_localized,    dir |-> FALSE, probe |-> "none",     cat |-> "OSJunk"],
       [name |-> N_dot_sass_cache,   dir |-> TRUE,  probe |-> "none",     cat |-> "TempFiles"],
       [name |-> N_dot_parcel_cache, dir |-> TRUE,  probe |-> "none",     cat |-> "TempFiles"],
       [name |-> N_dot_cache,        dir |-> TRUE,  probe |-> "none",     cat |-> "TempFiles"],
       [name |-> N_build,            dir |-> TRUE,  probe |-> "none",     cat |-> "BuildCache"],
       [name |-> N_dist,             dir |-> TRUE,  probe |-> "none",     cat |-> "BuildCache"],
       [name |-> N_out,              dir |-> TRUE,  probe |-> "none",     cat |-> "BuildCache"] >>

Probe(id, t, path) ==
    CASE id = "none"     -> TRUE
      [] id = "cargo"    -> is_cargo_target(t, path)
      [] id = "maven"    -> is_maven_target(t, path)
      [] id = "gradle"   -> is_gradle_build(t, path)
      [] id = "composer" -> is_composer_vendor(t, path)
      [] id = "go"       -> is_go_vendor(t, path)
      [] id = "dotnet"   -> is_dotnet_build(t, path)
      [] id = "packages" -> is_dotnet_packages(t, path)
      [] id = "swift"    -> is_swift_build(t, path)
      [] id = "bundler"  -> is_ruby_bundler(t, path)

(* The `_` arm: extensions and fixed names, then the global cache locations. *)
FallbackArm(file_name, path) ==
    IF EndsWith(file_name, X_pyc) \/ EndsWith(file_name, X_pyo) THEN "PythonCache"
    ELSE IF EndsWith(file_name, X_o) \/ EndsWith(file_name, X_a) \/ file_name = N_a_out
        THEN "CCache"
    ELSE IF EndsWith(file_name, X_log) THEN "TempFiles"
    ELSE IF EndsWith(file_name, X_tmp) \/ EndsWith(file_name, X_temp) THEN "TempFiles"
    ELSE IF ~PathIsUtf8(path) THEN NoneC
    ELSE IF Contains(PathStr(path), S_npm_cacache) THEN "PackageCache"
    ELSE IF Contains(PathStr(path), S_cache_pip) THEN "PackageCache"
    ELSE IF Contains(PathStr(path), S_cache_yarn) THEN "PackageCache"
    ELSE IF Contains(PathStr(path), S_m2_repository) THEN "PackageCache"
    ELSE NoneC

(* The classifier with the last arm that matches taken instead of the      *)
(* first.                                                                  *)
is_deletable_last_arm(t, path) ==
    IF path = <<>> \/ ~IsUtf8(Last(path)) THEN NoneC
    ELSE LET file_name == Last(path)
             is_dir == IsDir(t, path)
             taken == {i \in 1..Len(MatchArms) :
                          /\ MatchArms[i].name = file_name
                          /\ MatchArms[i].dir => is_dir
                          /\ Probe(MatchArms[i].probe, t, path)}
         IN  IF taken # {} THEN MatchArms[CHOOSE i \in taken : \A j \in taken : j <= i].cat
             ELSE FallbackArm(file_name, path)

is_deletable(t, path) ==
    IF path = <<>> \/ ~IsUtf8(Last(path)) THEN NoneC
    ELSE LET file_name == Last(path)
             is_dir == IsDir(t, path)
             taken == {i \in 1..Len(MatchArms) :
                          /\ MatchArms[i].name = file_name
                          /\ MatchArms[i].dir => is_dir
                          /\ Probe(MatchArms[i].probe, t, path)}
         IN  IF taken # {} THEN MatchArms[Min(taken)].cat
             ELSE FallbackArm(file_name, path)

----------------------------------------------------------------------------
(* The file systems of the model: every parent-closed part of Universe.    *)

P_root == <<>>
P_w == <<<<"w">>>>
P_proj == Join(P_w, <<"p","r","o","j">>)
P_cargo == Join(P_proj, N_Cargo_toml)
P_target == Join(P_proj, N_target)
P_debug == Join(P_target, <<"d","e","b","u","g">>)
P_deps == Join(P_debug, <<"d","e","p","s">>)
P_obj_file == Join(P_deps, <<"a",".","o">>)
P_inner_build == Join(P_target, N_build)
P_inner_file == Join(P_inner_build, <<"x">>)
P_nm == Join(P_w, N_node_modules)
P_nm_dist == Join(P_nm, N_dist)
P_nm_log == Join(P_nm_dist, <<"m",".","l","o","g">>)
P_bad == Join(P_w, <<"b", BadByte>>)
P_bad_nm == Join(P_bad, N_node_modules)

(* In the order directory listings return the entries. *)
Universe ==
    << [path |-> P_w,           kind |-> "dir",  len |-> 0],
       [path |-> P_proj,        kind |-> "dir",  len |-> 0],
       [path |-> P_cargo,       kind |-> "file", len |-> 10],
       [path |-> P_target,      kind |-> "dir",  len |-> 0],
       [path |-> P_debug,       kind |-> "dir",  len |-> 0],
       [path |-> P_deps,        kind |-> "dir",  len |-> 0],
       [path |-> P_obj_file,    kind |-> "file", len |-> 100],
       [path |-> P_inner_build, kind |-> "dir",  len |-> 0],
       [path |-> P_inner_file,  kind |-> "file", len |-> 200],
       [path |-> P_nm,          kind |-> "dir",  len |-> 0],
       [path |-> P_nm_dist,     kind |-> "dir",  len |-> 0],
       [path |-> P_nm_log,      kind |-> "file", len |-> 30],
       [path |-> P_bad,         kind |-> "dir",  len |-> 0],
       [path |-> P_bad_nm,      kind |-> "dir",  len |-> 0] >>

UPaths == [i \in 1..Len(Universe) |-> Universe[i].path]

UPathSet == {Universe[i].path : i \in 1..Len(Universe)}

UEntry(p) == Universe[CHOOSE i \in 1..Len(Universe) : Universe[i].path = p]

(* Modification time of every entry of the model, in ticks since the epoch. *)
MTime == 1

RootEntry == [kind |-> "dir", len |-> 0, mtime |-> MTime]

TreeOf(S) ==
    [p \in S \cup {P_root} |->
        IF p = P_root THEN RootEntry
        ELSE [kind |-> UEntry(p).kind, len |-> UEntry(p).len, mtime |-> MTime]]

ParentClosed(S) == \A p \in S : Len(p) > 1 => Parent(p) \in S

Trees == {TreeOf(S) : S \in {S \in SUBSET UPathSet : ParentClosed(S)}}

FullTree == TreeOf(UPathSet)

Dirs(t) == {p \in DOMAIN t : t[p].kind = "dir"}

(* What an external `rm -r p` leaves. *)
RemoveSubtree(t, p) == [q \in {q \in DOMAIN t : ~StartsWith(q, p)} |-> t[q]]

(* A second file system, of projects of several kinds side by side.        *)
P_x == <<<<"x">>>>
P_x_a == Join(P_x, <<"a">>)
P_x_a_cargo == Join(P_x_a, N_Cargo_toml)
P_x_a_target == Join(P_x_a, N_target)
P_x_m == Join(P_x, <<"m">>)
P_x_m_pom == Join(P_x_m, N_pom_xml)
P_x_m_target == Join(P_x_m, N_target)
P_x_v == Join(P_x, <<"v">>)
P_x_v_composer == Join(P_x_v, N_composer_json)
P_x_v_vendor == Join(P_x_v, N_vendor)
P_x_nm == Join(P_x, N_node_modules)
P_x_nm_dist == Join(P_x_nm, N_dist)
P_x_nm_file == Join(P_x_nm_dist, <<"f">>)
P_x_ds == Join(P_x, N_dot_DS_Store)

IndexUniverse ==
    << [path |-> P_x,            kind |-> "dir",  len |-> 0],
       [path |-> P_x_a,          kind |-> "dir",  len |-> 0],
       [path |-> P_x_a_cargo,    kind |-> "file", len |-> 10],
       [path |-> P_x_a_target,   kind |-> "dir",  len |-> 0],
       [path |-> P_x_m,          kind |-> "dir",  len |-> 0],
       [path |-> P_x_m_pom,      kind |-> "file", len |-> 20],
       [path |-> P_x_m_target,   kind |-> "dir",  len |-> 0],
       [path |-> P_x_v,          kind |-> "dir",  len |-> 0],
       [path |-> P_x_v_composer, kind |-> "file", len |-> 5],
       [path |-> P_x_v_vendor,   kind |-> "dir",  len |-> 0],
       [path |-> P_x_nm,         kind |-> "dir",  len |-> 0],
       [path |-> P_x_nm_dist,    kind |-> "dir",  len |-> 0],
       [path |-> P_x_nm_file,    kind |-> "file", len |-> 30],
       [path |-> P_x_ds,         kind |-> "file", len |-> 6] >>

IPaths == [i \in 1..Len(IndexUniverse) |-> IndexUniverse[i].path]

IPathSet == {IndexUniverse[i].path : i \in 1..Len(IndexUniverse)}

IndexTree ==
    [p \in IPathSet \cup {P_root} |->
        IF p = P_root THEN RootEntry
        ELSE LET e == IndexUniverse[CHOOSE i \in 1..Len(IndexUniverse) :
                                        IndexUniverse[i].path = p]
             IN  [kind |-> e.kind, len |-> e.len, mtime |-> MTime]]

(* Every path of the model, in the order listings return the entries. *)
AllPaths == UPaths \o IPaths

(* The working directory of the process, and "." as a path component. *)
Cwd == P_x

N_cur == <<".">>

(* The absolute path the system resolves p to: a path that begins with "." *)
(* is taken from the working directory.                                    *)
Resolve(p) == IF p # <<>> /\ p[1] = N_cur THEN Cwd \o Tail(p) ELSE p

----------------------------------------------------------------------------
(* The scan engine: scanner.rs, scan_directory. *)

(* The entries of directory e, in listing order. *)
ChildrenSeq(t, e) ==
    SelectSeq(AllPaths, LAMBDA q : Exists(t, q) /\ Len(q) = Len(e) + 1 /\ Parent(q) = e)

(* The predicate handed to WalkDir::filter_entry. *)
FilterEntryKeepAll(t, root, e) == TRUE

FilterEntry(t, root, e) ==
    IF e = root THEN TRUE
    ELSE IF is_deletable(t, e) # NoneC THEN FALSE
    ELSE TRUE

(* WalkDir::new(root).max_depth(max_depth).into_iter().filter_entry(..):   *)
(* the entries yielded, in pre-order. An entry the predicate rejects is    *)
(* not yielded and, when a directory, not descended into.                  *)
RECURSIVE Visit(_, _, _, _, _), VisitAll(_, _, _, _, _)
Visit(t, root, e, depth, max_depth) ==
    IF ~FilterEntry(t, root, e) THEN <<>>
    ELSE <<e>> \o (IF IsDir(t, e) /\ depth < max_depth
                   THEN VisitAll(t, root, ChildrenSeq(t, e), depth + 1, max_depth)
                   ELSE <<>>)

VisitAll(t, root, es, depth, max_depth) ==
    IF es = <<>> THEN <<>>
    ELSE Visit(t, root, Head(es), depth, max_depth)
             \o VisitAll(t, root, Tail(es), depth, max_depth)

WalkFiltered(t, root, max_depth) ==
    IF Exists(t, root) THEN Visit(t, root, root, 0, max_depth) ELSE <<>>

RECURSIVE SumLen(_, _)
SumLen(t, S) ==
    IF S = {} THEN 0
    ELSE LET p == CHOOSE p \in S : TRUE IN t[p].len + SumLen(t, S \ {p})

(* WalkDir reaches q from path: every directory from path down to the     *)
(* parent of q can be listed. An entry of kind "locked" is a directory     *)
(* whose listing fails.                                                    *)
Walked(t, path, q) ==
    /\ StartsWith(q, path)
    /\ \A k \in Len(path)..(Len(q) - 1) : IsDir(t, SubSeq(q, 1, k))

(* The sum over every entry the walk reaches, whatever its type. *)
calculate_dir_size_any_type(t, path) ==
    SumLen(t, {q \in DOMAIN t : Walked(t, path, q)})

(* Sum of the lengths of the regular files the walk reaches. An entry of   *)
(* kind "lost" is a regular file whose metadata cannot be read; symlinks   *)
(* are not followed.                                                       *)
calculate_dir_size_parallel(t, path) ==
    SumLen(t, {q \in DOMAIN t : Walked(t, path, q) /\ t[q].kind = "file"})

get_project_name(path) ==
    IF Len(path) >= 2 /\ IsUtf8(path[Len(path) - 1]) THEN path[Len(path) - 1]
    ELSE N_Unknown

(* The item built for a pending (path, category) in the second pass. *)
SizedItem(t, item_path, category, clock) ==
    [path          |-> item_path,
     size          |-> IF IsDir(t, item_path) THEN calculate_dir_size_parallel(t, item_path)
                       ELSE IF Exists(t, item_path) THEN t[item_path].len ELSE 0,
     category      |-> category,
     project_name  |-> get_project_name(item_path),
     last_modified |-> IF Exists(t, item_path) THEN t[item_path].mtime ELSE clock]

scan_directory(t, path, max_depth, clock) ==
    LET entries == WalkFiltered(t, path, max_depth)
        pending == SelectSeq(entries, LAMBDA e : is_deletable(t, e) # NoneC)
    IN  [i \in 1..Len(pending) |->
            SizedItem(t, pending[i], is_deletable(t, pending[i]), clock)]

----------------------------------------------------------------------------
(* The indexed scan: scanner.rs, find_with_mdfind, scan_directory_macos    *)
(* and try_indexed_scan. What the platform and the Spotlight index answer  *)
(* is a record sp: os, the target of the build; mdfind, whether the tool   *)
(* runs; indexed, the paths the index knows; failing, the file names whose *)
(* query fails.                                                            *)

Queries ==
    << [name |-> N_target,           cat |-> "RustTarget"],
       [name |-> N_node_modules,     cat |-> "NodeModules"],
       [name |-> N_pycache,          cat |-> "PythonCache"],
       [name |-> N_build,            cat |-> "BuildCache"],
       [name |-> N_dot_gradle,       cat |-> "GradleBuild"],
       [name |-> N_venv,             cat |-> "PythonCache"],
       [name |-> N_dot_venv,         cat |-> "PythonCache"],
       [name |-> N_dist,             cat |-> "BuildCache"],
       [name |-> N_vendor,           cat |-> "GoVendor"],
       [name |-> N_CMakeFiles,       cat |-> "CCache"],
       [name |-> N_bin,              cat |-> "DotNetBuild"],
       [name |-> N_obj,              cat |-> "DotNetBuild"],
       [name |-> N_dot_build,        cat |-> "SwiftBuild"],
       [name |-> N_DerivedData,      cat |-> "SwiftBuild"],
       [name |-> N_dot_idea,         cat |-> "IDECache"],
       [name |-> N_dot_vscode,       cat |-> "IDECache"],
       [name |-> N_dot_vs,           cat |-> "IDECache"],
       [name |-> N_dot_bundle,       cat |-> "RubyGems"],
       [name |-> N_dot_DS_Store,     cat |-> "OSJunk"],
       [name |-> N_Thumbs_db,        cat |-> "OSJunk"],
       [name |-> N_dot_sass_cache,   cat |-> "TempFiles"],
       [name |-> N_dot_parcel_cache, cat |-> "TempFiles"] >>

(* mdfind -onlyin base_path "kMDItemFSName == 'name'": absolute paths      *)
(* below the directory base_path resolves to, the output decoded           *)
(* with from_utf8_lossy, which spoils a path that is not UTF-8, and        *)
(* filtered by exists; the empty list, by unwrap_or_default, when the      *)
(* query fails.                                                            *)
find_with_mdfind(t, sp, base_path, name) ==
    IF name \in sp.failing THEN <<>>
    ELSE SelectSeq(AllPaths, LAMBDA q :
            /\ Last(q) = name
            /\ q \in sp.indexed
            /\ StartsWith(q, Resolve(base_path))
            /\ PathIsUtf8(q)
            /\ Exists(t, q))

(* The filter that accepts every detected category. *)
CategoryAcceptedAny(query_cat, detected) == TRUE

(* The filter on the category the query stands for, lines 483-505. *)
CategoryAccepted(query_cat, detected) ==
    IF query_cat = "RustTarget" THEN detected = "RustTarget"
    ELSE IF query_cat = "GoVendor" THEN detected \in {"GoVendor", "PHPVendor", "RubyGems"}
    ELSE detected = query_cat

(* The loop over the parents of p, lines 509-522: it runs while the        *)
(* parent is below base_path, the root as given.                           *)
NestedInDeletable(t, base_path, p) ==
    /\ StartsWith(Parent(p), base_path)
    /\ \E k \in (Len(base_path) + 1)..(Len(p) - 1) : is_deletable(t, SubSeq(p, 1, k)) # NoneC

(* Line 460: base_path.canonicalize(), which fails for a path that does    *)
(* not exist, and then the root as given.                                  *)
canonical_base(t, base_path) ==
    IF Exists(t, Resolve(base_path)) THEN Resolve(base_path) ELSE base_path

(* The filter_map closure, lines 470-526. *)
IndexedHit(t, base_path, query_cat, p) ==
    /\ StartsWith(p, base_path) \/ StartsWith(p, canonical_base(t, base_path))
    /\ IsDir(t, p)
    /\ is_deletable(t, p) # NoneC
    /\ CategoryAccepted(query_cat, is_deletable(t, p))
    /\ ~NestedInDeletable(t, base_path, p)

RECURSIVE IndexedPending(_, _, _, _)
IndexedPending(t, sp, base_path, i) ==
    IF i > Len(Queries) THEN <<>>
    ELSE SelectSeq(find_with_mdfind(t, sp, base_path, Queries[i].name),
                   LAMBDA p : IndexedHit(t, base_path, Queries[i].cat, p))
         \o IndexedPending(t, sp, base_path, i + 1)

(* Lines 554-575: the items of the pending paths, with their sizes. *)
sized_items(t, pending, clock) ==
    [i \in 1..Len(pending) |-> SizedItem(t, pending[i], is_deletable(t, pending[i]), clock)]

scan_directory_macos(t, sp, path, max_depth, clock) ==
    sized_items(t, IndexedPending(t, sp, path, 1), clock)

Err == [ok |-> FALSE]

Ok(items) == [ok |-> TRUE, items |-> items]

try_indexed_scan(t, sp, path, max_depth, clock) ==
    IF sp.os # "macos" THEN Err
    ELSE IF ~sp.mdfind THEN Err
    ELSE Ok(scan_directory_macos(t, sp, path, max_depth, clock))

----------------------------------------------------------------------------
(* State shared by the specifications. *)

Idle == [op |-> "idle"]

Missing == [state |-> "missing"]

(* Largest max_depth a call of the model passes. *)
MaxDepth == 3

Depths == 0..MaxDepth

----------------------------------------------------------------------------
(* Time. The clock counts ticks; a second is TicksPerSecond ticks, so that *)
(* Duration::as_secs truncates as it does in the code.                     *)

TicksPerSecond == 2

CACHE_VALIDITY_SECONDS == 300

(* The clock when the model starts. *)
StartTime == 10

(* The instants the clock of the model takes. *)
Instants ==
    {StartTime + d : d \in {0, 299 * TicksPerSecond, 300 * TicksPerSecond,
                            300 * TicksPerSecond + 1, 301 * TicksPerSecond}}

(* SystemTime::elapsed: the duration since t, an error when t is later     *)
(* than the clock.                                                         *)
ElapsedOk(t, clock) == clock >= t

Elapsed(t, clock) == clock - t

as_secs(duration) == duration \div TicksPerSecond

----------------------------------------------------------------------------
(* The cache file and its JSON: types.rs, ScanCache and DeletableItem with *)
(* serde's Serialize / Deserialize.                                        *)

Garbage == [kind |-> "garbage"]

Json(doc) == [kind |-> "json", doc |-> doc]

NoneV == [some |-> FALSE]

Some(v) == [some |-> TRUE, value |-> v]

(* serde, SystemTime: the duration since UNIX_EPOCH as seconds and         *)
(* nanoseconds; an error for a time before the epoch.                      *)
TimeSerializable(t) == t >= 0

TimeToJson(t) ==
    [secs_since_epoch  |-> t \div TicksPerSecond,
     nanos_since_epoch |-> (t % TicksPerSecond) * (1000000000 \div TicksPerSecond)]

TimeFromJsonWholeSeconds(j) == j.secs_since_epoch * TicksPerSecond

TimeFromJson(j) ==
    j.secs_since_epoch * TicksPerSecond
        + j.nanos_since_epoch \div (1000000000 \div TicksPerSecond)

(* serde, PathBuf: the path as a string; an error when it is not UTF-8.    *)
PathToJson(p) == PathStr(p)

RECURSIVE Split(_, _, _, _)
Split(s, i, cur, acc) ==
    IF i > Len(s) THEN (IF cur = <<>> THEN acc ELSE Append(acc, cur))
    ELSE IF s[i] = "/" THEN Split(s, i + 1, <<>>, IF cur = <<>> THEN acc ELSE Append(acc, cur))
    ELSE Split(s, i + 1, Append(cur, s[i]), acc)

(* PathBuf::from of the string: its components. *)
PathFromJson(s) == Split(s, 1, <<>>, <<>>)

ItemSerializable(item) == PathIsUtf8(item.path) /\ TimeSerializable(item.last_modified)

ItemToJson(item) ==
    [path          |-> PathToJson(item.path),
     size          |-> item.size,
     category      |-> item.category,
     project_name  |-> item.project_name,
     last_modified |-> TimeToJson(item.last_modified)]

ItemFromJson(j) ==
    [path          |-> PathFromJson(j.path),
     size          |-> j.size,
     category      |-> j.category,
     project_name  |-> j.project_name,
     last_modified |-> TimeFromJson(j.last_modified)]

(* serde_json::to_string(&cache) is Ok. *)
CacheSerializable(cache) ==
    /\ PathIsUtf8(cache.scan_path)
    /\ TimeSerializable(cache.scan_time)
    /\ \A i \in 1..Len(cache.items) : ItemSerializable(cache.items[i])

to_json(cache) ==
    [scan_path |-> PathToJson(cache.scan_path),
     scan_time |-> TimeToJson(cache.scan_time),
     items     |-> [i \in 1..Len(cache.items) |-> ItemToJson(cache.items[i])],
     max_depth |-> cache.max_depth]

from_json(doc) ==
    [scan_path |-> PathFromJson(doc.scan_path),
     scan_time |-> TimeFromJson(doc.scan_time),
     items     |-> [i \in 1..Len(doc.items) |-> ItemFromJson(doc.items[i])],
     max_depth |-> doc.max_depth]

(* A cache file on disk: whether this user can read it, and its content,   *)
(* Garbage or a JSON document.                                             *)
File(readable, content) == [state |-> "file", readable |-> readable, content |-> content]

HoldsRecord(file) == file.state = "file" /\ file.content.kind = "json"

----------------------------------------------------------------------------
(* The result cache: cache.rs. *)

ParamsMatchPathOnly(cache, scan_path, max_depth) == cache.scan_path = scan_path

(* The test of line 90, negated. *)
ParamsMatch(cache, scan_path, max_depth) ==
    ~(cache.scan_path # scan_path \/ cache.max_depth # max_depth)

(* The age test that rejects a record whose elapsed time cannot be         *)
(* computed.                                                               *)
IsStaleOnSkew(cache, clock) ==
    IF ElapsedOk(cache.scan_time, clock)
    THEN as_secs(Elapsed(cache.scan_time, clock)) > CACHE_VALIDITY_SECONDS
    ELSE TRUE

(* The test of lines 95-99. *)
IsStale(cache, clock) ==
    IF ElapsedOk(cache.scan_time, clock)
    THEN as_secs(Elapsed(cache.scan_time, clock)) > CACHE_VALIDITY_SECONDS
    ELSE FALSE

ValidItemsKeepAll(t, items) == items

(* Lines 102-106. *)
ValidItems(t, items) == SelectSeq(items, LAMBDA item : Exists(t, item.path))

load_cache(file, t, clock, scan_path, max_depth) ==
    IF file.state = "missing" THEN NoneV
    ELSE IF ~file.readable THEN NoneV
    ELSE IF file.content.kind # "json" THEN NoneV
    ELSE LET cache == from_json(file.content.doc)
         IN  IF ~ParamsMatch(cache, scan_path, max_depth) THEN NoneV
             ELSE IF IsStale(cache, clock) THEN NoneV
             ELSE Some(ValidItems(t, cache.items))

(* Whether save_cache gets to replace the content of the file: the record  *)
(* serializes and fs::write succeeds (write_ok, the environment's answer). *)
SaveWrites(scan_path, max_depth, items, clock, write_ok) ==
    /\ CacheSerializable([scan_path |-> scan_path, scan_time |-> clock,
                          items |-> items, max_depth |-> max_depth])
    /\ write_ok

(* save_cache that leaves an existing cache file alone. *)
save_cache_once(file, scan_path, max_depth, items, clock, write_ok) ==
    IF file.state = "file" THEN file
    ELSE IF SaveWrites(scan_path, max_depth, items, clock, write_ok)
    THEN File(TRUE, Json(to_json([scan_path |-> scan_path, scan_time |-> clock,
                                  items |-> items, max_depth |-> max_depth])))
    ELSE file

(* The cache file after save_cache. fs::write creates the file or replaces *)
(* its content; the permissions of an existing file stay.                  *)
save_cache(file, scan_path, max_depth, items, clock, write_ok) ==
    LET cache == [scan_path |-> scan_path, scan_time |-> clock,
                  items |-> items, max_depth |-> max_depth]
    IN  IF SaveWrites(scan_path, max_depth, items, clock, write_ok)
        THEN File(IF file.state = "file" THEN file.readable ELSE TRUE, Json(to_json(cache)))
        ELSE file

(* fs::remove_file, its result dropped: the file stays when it fails. *)
clear_cache(file, remove_ok) == IF remove_ok THEN Missing ELSE file

----------------------------------------------------------------------------
(* Size strings: utils.rs, parse_size. A string is a sequence of           *)
(* characters. A u64 is a sequence of limbs in base 1024, the least        *)
(* significant first and the most significant not 0, so that               *)
(* multiplying by a power of 1024 shifts the limbs and 2^64 - 1 is six     *)
(* limbs of 1023 and one of 15.                                            *)

DigitChars == <<"0", "1", "2", "3", "4", "5", "6", "7", "8", "9">>

LowerChars ==
    <<"a", "b", "c", "d", "e", "f", "g", "h", "i", "j", "k", "l", "m",
      "n", "o", "p", "q", "r", "s", "t", "u", "v", "w", "x", "y", "z">>

UpperChars ==
    <<"A", "B", "C", "D", "E", "F", "G", "H", "I", "J", "K", "L", "M",
      "N", "O", "P", "Q", "R", "S", "T", "U", "V", "W", "X", "Y", "Z">>

WhiteChars == {" ", "\t"}

IsDigit(c) == \E i \in 1..10 : DigitChars[i] = c

DigitValue(c) == (CHOOSE i \in 1..10 : DigitChars[i] = c) - 1

(* char::to_uppercase on the letters of the model. *)
UpperChar(c) ==
    IF \E i \in 1..26 : LowerChars[i] = c
    THEN UpperChars[CHOOSE i \in 1..26 : LowerChars[i] = c]
    ELSE c

to_uppercase(s) == [i \in 1..Len(s) |-> UpperChar(s[i])]

RECURSIVE TrimStart(_), TrimEnd(_)
TrimStart(s) == IF s # <<>> /\ Head(s) \in WhiteChars THEN TrimStart(Tail(s)) ELSE s

TrimEnd(s) ==
    IF s # <<>> /\ s[Len(s)] \in WhiteChars THEN TrimEnd(SubSeq(s, 1, Len(s) - 1)) ELSE s

trim(s) == TrimEnd(TrimStart(s))

(* str::strip_suffix *)
strip_suffix(s, suffix) ==
    IF EndsWith(s, suffix) THEN Some(SubSeq(s, 1, Len(s) - Len(suffix))) ELSE NoneV

LimbBase == 1024

(* limbs * m + carry, for m and carry below the base. *)
RECURSIVE MulAdd(_, _, _)
MulAdd(limbs, m, carry) ==
    IF limbs = <<>> THEN (IF carry = 0 THEN <<>> ELSE <<carry>>)
    ELSE LET v == Head(limbs) * m + carry
         IN  <<v % LimbBase>> \o MulAdd(Tail(limbs), m, v \div LimbBase)

(* The value fits in 64 bits. *)
FitsU64(limbs) == Len(limbs) <= 6 \/ (Len(limbs) = 7 /\ limbs[7] <= 15)

U64_MAX == <<1023, 1023, 1023, 1023, 1023, 1023, 15>>

(* The digits read from the left with checked arithmetic; NoneV on         *)
(* overflow.                                                               *)
RECURSIVE ParseDigits(_, _)
ParseDigits(s, acc) ==
    IF s = <<>> THEN Some(acc)
    ELSE LET next == MulAdd(acc, 10, DigitValue(Head(s)))
         IN  IF FitsU64(next) THEN ParseDigits(Tail(s), next) ELSE NoneV

(* str::parse::<u64>: an optional "+", then one decimal digit or more. *)
parse_u64(s) ==
    LET digits == IF s # <<>> /\ Head(s) = "+" THEN Tail(s) ELSE s
    IN  IF digits = <<>> \/ \E i \in 1..Len(digits) : ~IsDigit(digits[i])
        THEN NoneV
        ELSE ParseDigits(digits, <<>>)

(* The multiplication without the saturation. *)
unsaturated_mul_pow(n, k) == IF n = <<>> THEN <<>> ELSE [i \in 1..k |-> 0] \o n

(* n.saturating_mul(1024^k) *)
saturating_mul_pow(n, k) ==
    LET shifted == IF n = <<>> THEN <<>> ELSE [i \in 1..k |-> 0] \o n
    IN  IF FitsU64(shifted) THEN shifted ELSE U64_MAX

(* The suffix and the power of 1024 it stands for, in the order of the     *)
(* tests.                                                                  *)
SizeSuffixes ==
    << [suffix |-> <<"T", "B">>, pow |-> 4],
       [suffix |-> <<"G", "B">>, pow |-> 3],
       [suffix |-> <<"M", "B">>, pow |-> 2],
       [suffix |-> <<"K", "B">>, pow |-> 1],
       [suffix |-> <<"B">>,      pow |-> 0] >>

(* Some(bytes), or NoneV for Err. *)
parse_size(size_str) ==
    LET str   == to_uppercase(trim(size_str))
        taken == {i \in 1..Len(SizeSuffixes) : strip_suffix(str, SizeSuffixes[i].suffix).some}
        num   == IF taken = {} THEN str
                 ELSE strip_suffix(str, SizeSuffixes[Min(taken)].suffix).value
        pow   == IF taken = {} THEN 0 ELSE SizeSuffixes[Min(taken)].pow
        n     == parse_u64(trim(num))
    IN  IF n.some THEN Some(saturating_mul_pow(n.value, pow)) ELSE NoneV

(* A machine integer of the model as limbs. *)
RECURSIVE Limbs(_)
Limbs(n) == IF n = 0 THEN <<>> ELSE <<n % LimbBase>> \o Limbs(n \div LimbBase)

(* a >= b on limbs. *)
RECURSIVE LimbsGeq(_, _)
LimbsGeq(a, b) ==
    IF Len(a) # Len(b) THEN Len(a) > Len(b)
    ELSE IF a = <<>> THEN TRUE
    ELSE IF a[Len(a)] # b[Len(b)] THEN a[Len(a)] > b[Len(b)]
    ELSE LimbsGeq(SubSeq(a, 1, Len(a) - 1), SubSeq(b, 1, Len(b) - 1))

(* items.retain(|item| item.size >= min_size_bytes) *)
retain_min_size(items, min_size_bytes) ==
    SelectSeq(items, LAMBDA item : LimbsGeq(Limbs(item.size), min_size_bytes))

----------------------------------------------------------------------------
(* SpecScan: scan_directory called on every file system of the model.      *)

InitScan ==
    /\ tree \in Trees
    /\ now = 0
    /\ cacheFile = Missing
    /\ ret = Idle

ScanDirectory(path, max_depth) ==
    /\ ret.op = "idle"
    /\ IsDir(tree, path)
    /\ ret' = [op |-> "scan_directory", path |-> path, max_depth |-> max_depth,
               value |-> scan_directory(tree, path, max_depth, now)]
    /\ UNCHANGED <<tree, now, cacheFile>>

NextScan == \E path \in UPathSet \cup {P_root}, max_depth \in Depths : ScanDirectory(path, max_depth)

SpecScan == InitScan /\ [][NextScan]_vars

----------------------------------------------------------------------------
(* SpecCache: save_cache, load_cache and clear_cache called one after the  *)
(* other while the clock moves, forward and back, and item paths are       *)
(* removed.                                                                *)

(* The items handed to save_cache: the lists drawn from ItemPool, in pool  *)
(* order, of at most MaxItems items.                                       *)
MaxItems == 3

ItemPool ==
    << SizedItem(FullTree, P_target, "RustTarget", StartTime),
       SizedItem(FullTree, P_nm, "NodeModules", StartTime),
       SizedItem(FullTree, P_nm_dist, "BuildCache", StartTime) >>

ItemLists ==
    {SelectSeq(ItemPool, LAMBDA item : item.path \in S) :
        S \in {S \in SUBSET {P_target, P_nm, P_nm_dist} : Cardinality(S) <= MaxItems}}

(* The scan parameters of the calls. *)
ScanPaths == {P_w, P_proj}

MaxCacheDepth == 2

CacheDepths == 1..MaxCacheDepth

(* The paths somebody removes while the program is not running. *)
Removable == {P_target, P_nm_dist}

InitCache ==
    /\ tree = FullTree
    /\ now = StartTime
    /\ cacheFile = Missing
    /\ ret = Idle

SaveCache(scan_path, max_depth, items, write_ok) ==
    /\ ret.op = "idle"
    /\ cacheFile' = save_cache(cacheFile, scan_path, max_depth, items, now, write_ok)
    /\ ret' = [op |-> "save_cache",
               written |-> SaveWrites(scan_path, max_depth, items, now, write_ok)]
    /\ UNCHANGED <<tree, now>>

LoadCache(scan_path, max_depth) ==
    /\ ret.op = "idle"
    /\ ret' = [op |-> "load_cache", path |-> scan_path, max_depth |-> max_depth,
               value |-> load_cache(cacheFile, tree, now, scan_path, max_depth)]
    /\ UNCHANGED <<tree, now, cacheFile>>

ClearCache(remove_ok) ==
    /\ ret.op = "idle"
    /\ cacheFile' = clear_cache(cacheFile, remove_ok)
    /\ ret' = [op |-> "clear_cache"]
    /\ UNCHANGED <<tree, now>>

(* The call is over: its result is consumed. *)
Return ==
    /\ ret.op # "idle"
    /\ ret' = Idle
    /\ UNCHANGED <<tree, now, cacheFile>>

(* Time passes. *)
Tick(t) ==
    /\ ret.op = "idle"
    /\ t > now
    /\ now' = t
    /\ UNCHANGED <<tree, cacheFile, ret>>

(* The system clock is set back. *)
ClockSetBack(t) ==
    /\ ret.op = "idle"
    /\ t < now
    /\ now' = t
    /\ UNCHANGED <<tree, cacheFile, ret>>

(* Somebody removes p and what is below it. *)
ExternalRemove(p) ==
    /\ ret.op = "idle"
    /\ Exists(tree, p)
    /\ tree' = RemoveSubtree(tree, p)
    /\ UNCHANGED <<now, cacheFile, ret>>

NextCache ==
    \/ \E scan_path \in ScanPaths, max_depth \in CacheDepths, items \in ItemLists,
          write_ok \in BOOLEAN : SaveCache(scan_path, max_depth, items, write_ok)
    \/ \E scan_path \in ScanPaths, max_depth \in CacheDepths : LoadCache(scan_path, max_depth)
    \/ \E remove_ok \in BOOLEAN : ClearCache(remove_ok)
    \/ Return
    \/ \E t \in Instants : Tick(t)
    \/ \E t \in Instants : ClockSetBack(t)
    \/ \E p \in Removable : ExternalRemove(p)

SpecCache == InitCache /\ [][NextCache]_vars

(* The depth of entry e below the scan root. *)
DepthBelow(e, root) == Len(e) - Len(root)

ItemPaths(items) == {items[i].path : i \in 1..Len(items)}

Scanned == ret.op = "scan_directory"

(* C1: pruning invariant. After scan_directory(root, max_depth), for every *)
(* directory D of the scanned tree (the root or below it) that             *)
(* is_deletable classifies, no returned item lies strictly below D.        *)
C1_PruningInvariant ==
    Scanned =>
        \A D \in Dirs(tree) :
            (StartsWith(D, ret.path) /\ is_deletable(tree, D) # NoneC)
                => \A p \in ItemPaths(ret.value) : ~StrictlyUnder(p, D)

(* A scan whose tree holds a classified directory D below the root with a  *)
(* classified entry inside it, within the depth bound.                     *)
C1_Witness ==
    /\ Scanned
    /\ \E D \in Dirs(tree), e \in DOMAIN tree :
          /\ StrictlyUnder(D, ret.path) /\ is_deletable(tree, D) # NoneC
          /\ StrictlyUnder(e, D) /\ is_deletable(tree, e) # NoneC
          /\ DepthBelow(e, ret.path) <= ret.max_depth

(* No directory strictly between the root and e is classified. *)
NoMatchedAncestor(t, root, e) ==
    \A a \in DOMAIN t :
        (StrictlyUnder(a, root) /\ StrictlyUnder(e, a)) => is_deletable(t, a) = NoneC

(* C2: discovery completeness. Every entry other than the root, at depth   *)
(* <= max_depth, that is_deletable classifies as c and that has no         *)
(* classified proper ancestor below the root, is returned exactly once,    *)
(* with category c.                                                        *)
C2_DiscoveryComplete ==
    Scanned =>
        \A e \in DOMAIN tree :
            ( /\ StrictlyUnder(e, ret.path)
              /\ DepthBelow(e, ret.path) <= ret.max_depth
              /\ is_deletable(tree, e) # NoneC
              /\ NoMatchedAncestor(tree, ret.path, e) )
            => /\ Cardinality({i \in 1..Len(ret.value) : ret.value[i].path = e}) = 1
               /\ \A i \in 1..Len(ret.value) :
                     ret.value[i].path = e => ret.value[i].category = is_deletable(tree, e)

(* C3: end to end. Scanning a tree that holds proj/Cargo.toml, proj/target *)
(* and proj/target/debug/deps (and nothing else to report) yields exactly  *)
(* one item, proj/target, sized as the sum of all file bytes below target. *)
C3_TargetScenario ==
    ( /\ Scanned
      /\ ret.path \in {P_w, P_proj}
      /\ ret.max_depth >= DepthBelow(P_target, ret.path)
      /\ {P_cargo, P_target, P_deps} \subseteq DOMAIN tree
      /\ P_nm \notin DOMAIN tree )
    => /\ Len(ret.value) = 1
       /\ ret.value[1].path = P_target
       /\ ret.value[1].category = "RustTarget"
       /\ ret.value[1].size = (IF P_obj_file \in DOMAIN tree THEN 100 ELSE 0)
                                + (IF P_inner_file \in DOMAIN tree THEN 200 ELSE 0)

(* C4: the scan root is never returned as an item, whatever its name.      *)
C4_RootNeverReturned ==
    Scanned => ret.path \notin ItemPaths(ret.value)


----------------------------------------------------------------------------
(* The result cache: claims checked under SpecCache. In a state reached by *)
(* LoadCache the cache file, the tree and the clock are those the call     *)
(* saw.                                                                    *)

Loaded == ret.op = "load_cache"

(* The record the cache file holds, decoded. *)
Stored == from_json(cacheFile.content.doc)

(* The age of the stored record, in ticks of the clock. *)
Age == now - Stored.scan_time

AllStoredExist == \A i \in 1..Len(Stored.items) : Exists(tree, Stored.items[i].path)

(* C5: load_cache(path, depth) returns None whenever the stored record's   *)
(* scan_path differs from path or its max_depth differs from depth, even   *)
(* if the record is fresh and all its items still exist.                   *)
C5_ParamsMismatchIsNone ==
    (Loaded /\ HoldsRecord(cacheFile)
        /\ (Stored.scan_path # ret.path \/ Stored.max_depth # ret.max_depth))
        => ret.value = NoneV

(* A fresh record whose items all exist, stored for the same path and for  *)
(* another depth, was asked for.                                           *)
C5_Witness ==
    /\ Loaded /\ HoldsRecord(cacheFile)
    /\ Stored.scan_path = ret.path
    /\ Stored.max_depth # ret.max_depth
    /\ Age = 0
    /\ Len(Stored.items) > 0
    /\ AllStoredExist
    /\ ret.value = NoneV

(* C6: load_cache returns None whenever the time elapsed since the         *)
(* record's scan_time is greater than 300 seconds, any elapsed time        *)
(* between 300 and 301 seconds included, and returns Some with an          *)
(* unchanged item count when the elapsed time is exactly 299 seconds and   *)
(* all item paths exist.                                                   *)
C6_StaleAfter300Seconds ==
    (Loaded /\ HoldsRecord(cacheFile))
        => /\ Age > 300 * TicksPerSecond => ret.value = NoneV
           /\ (/\ Age = 299 * TicksPerSecond
               /\ Stored.scan_path = ret.path
               /\ Stored.max_depth = ret.max_depth
               /\ AllStoredExist)
                  => (ret.value.some /\ Len(ret.value.value) = Len(Stored.items))

(* C7: a cache record is reused only if its age is strictly below the      *)
(* 5-minute validity window; load_cache returns None for a record that is  *)
(* exactly 300 seconds old.                                                *)
C7_ReusedOnlyBelowWindow ==
    Loaded =>
        /\ ret.value.some => (HoldsRecord(cacheFile) /\ Age < 300 * TicksPerSecond)
        /\ (HoldsRecord(cacheFile) /\ Age = 300 * TicksPerSecond) => ret.value = NoneV

(* The stored items whose path exists, in stored order. *)
RECURSIVE Existing(_)
Existing(items) ==
    IF items = <<>> THEN <<>>
    ELSE IF Exists(tree, Head(items).path)
         THEN <<Head(items)>> \o Existing(Tail(items))
         ELSE Existing(Tail(items))

(* C8: when load_cache returns Some, the returned list is exactly the      *)
(* subsequence, in stored order, of the stored items whose path exists on  *)
(* disk; of 3 cached items one of whose paths was removed it returns       *)
(* exactly the 2 others.                                                   *)
C8_ReturnsExistingInOrder ==
    (Loaded /\ ret.value.some)
        => /\ HoldsRecord(cacheFile)
           /\ ret.value.value = Existing(Stored.items)
           /\ (/\ Len(Stored.items) = 3
               /\ Cardinality({i \in 1..3 : ~Exists(tree, Stored.items[i].path)}) = 1)
                  => Len(ret.value.value) = 2

(* Three items were stored, the first was removed since, the two others    *)
(* come back.                                                              *)
C8_Witness ==
    /\ Loaded /\ ret.value.some
    /\ HoldsRecord(cacheFile)
    /\ Len(Stored.items) = 3
    /\ ~Exists(tree, Stored.items[1].path)
    /\ ret.value.value = <<Stored.items[2], Stored.items[3]>>


----------------------------------------------------------------------------
(* SpecRoundTrip: save_cache and, at once, load_cache with the same        *)
(* parameters, from every cache file and tree of the model.                *)

(* The items handed to save_cache, one of them below a directory whose     *)
(* name is not UTF-8.                                                      *)
RoundTripPool ==
    ItemPool \o << SizedItem(FullTree, P_bad_nm, "NodeModules", StartTime) >>

RoundTripLists ==
    {SelectSeq(RoundTripPool, LAMBDA item : item.path \in S) :
        S \in {S \in SUBSET {P_target, P_nm, P_nm_dist, P_bad_nm} : Cardinality(S) <= MaxItems}}

RoundTripPaths == {P_w, P_proj, P_bad}

RoundTripTrees ==
    {FullTree, RemoveSubtree(FullTree, P_target), RemoveSubtree(FullTree, P_nm)}

(* The record of an earlier scan. *)
OldRecord ==
    [scan_path |-> P_w, scan_time |-> StartTime, items |-> <<ItemPool[1]>>, max_depth |-> 1]

(* The cache file before the call. *)
RoundTripFiles ==
    {Missing, File(TRUE, Garbage), File(FALSE, Garbage), File(TRUE, Json(to_json(OldRecord)))}

InitRoundTrip ==
    /\ tree \in RoundTripTrees
    /\ now = StartTime
    /\ cacheFile \in RoundTripFiles
    /\ ret = Idle

RoundTripSave(scan_path, max_depth, items, write_ok) ==
    /\ ret.op = "idle"
    /\ cacheFile' = save_cache(cacheFile, scan_path, max_depth, items, now, write_ok)
    /\ ret' = [op |-> "save_cache", path |-> scan_path, max_depth |-> max_depth,
               items |-> items,
               written |-> SaveWrites(scan_path, max_depth, items, now, write_ok)]
    /\ UNCHANGED <<tree, now>>

RoundTripLoad ==
    /\ ret.op = "save_cache"
    /\ ret' = [op |-> "round_trip", path |-> ret.path, max_depth |-> ret.max_depth,
               items |-> ret.items, written |-> ret.written,
               value |-> load_cache(cacheFile, tree, now, ret.path, ret.max_depth)]
    /\ UNCHANGED <<tree, now, cacheFile>>

NextRoundTrip ==
    \/ \E scan_path \in RoundTripPaths, max_depth \in CacheDepths, items \in RoundTripLists,
          write_ok \in BOOLEAN : RoundTripSave(scan_path, max_depth, items, write_ok)
    \/ RoundTripLoad

SpecRoundTrip == InitRoundTrip /\ [][NextRoundTrip]_vars

RoundTripped == ret.op = "round_trip" /\ Len(ret.items) > 0

(* C9, as stated: for every path p, depth d and non-empty item list,       *)
(* save_cache(p, d, items) followed immediately by load_cache(p, d)        *)
(* returns Some of the items whose paths exist, each unchanged, none       *)
(* added, dropped or altered.                                              *)
C9_RoundTrip == RoundTripped => ret.value = Some(Existing(ret.items))

(* C9, amended: the round trip returns Some of the items whose paths       *)
(* exist, unchanged and in order, whenever save_cache wrote the record     *)
(* (it serialized and the file was written) and the cache file can be      *)
(* read.                                                                   *)
C9_RoundTripWhenWritten ==
    (RoundTripped /\ ret.written /\ cacheFile.readable)
        => ret.value = Some(Existing(ret.items))

(* Several items were saved and written, one of them is gone from the      *)
(* disk, the others come back.                                             *)
C9_Witness ==
    /\ RoundTripped /\ ret.written /\ cacheFile.readable
    /\ Len(ret.items) >= 2
    /\ ret.value.some
    /\ Len(ret.value.value) >= 1
    /\ Len(ret.value.value) < Len(ret.items)


----------------------------------------------------------------------------
(* Spec: the program. perform_scan runs with every input over a file       *)
(* system, a clock and a cache file that change between the runs.          *)

(* main.rs, perform_scan, lines 36-51 and 73-88. *)
index_or_walk(indexed, t, path, max_depth, use_index, clock) ==
    IF use_index /\ indexed.ok
    THEN [source |-> "index", items |-> indexed.items]
    ELSE [source |-> "walk", items |-> scan_directory(t, path, max_depth, clock)]

FreshScan(t, sp, path, max_depth, use_index, clock) ==
    index_or_walk(try_indexed_scan(t, sp, path, max_depth, clock),
                  t, path, max_depth, use_index, clock)

(* perform_scan that serves a fresh matching record even when forced. *)
cached_or_fresh_unforced(file, cached, fresh, path, max_depth, force, clock, write_ok) ==
    IF cached.some
    THEN [source |-> "cache", items |-> cached.value, file |-> file, written |-> FALSE]
    ELSE [source |-> fresh.source, items |-> fresh.items,
          file |-> save_cache(file, path, max_depth, fresh.items, clock, write_ok),
          written |-> SaveWrites(path, max_depth, fresh.items, clock, write_ok)]

(* What perform_scan returns and the cache file it leaves. *)
cached_or_fresh(file, cached, fresh, path, max_depth, force, clock, write_ok) ==
    IF ~force /\ cached.some
    THEN [source |-> "cache", items |-> cached.value, file |-> file, written |-> FALSE]
    ELSE [source |-> fresh.source, items |-> fresh.items,
          file |-> save_cache(file, path, max_depth, fresh.items, clock, write_ok),
          written |-> SaveWrites(path, max_depth, fresh.items, clock, write_ok)]

perform_scan(file, t, sp, path, max_depth, force, use_index, clock, write_ok) ==
    cached_or_fresh(file,
                    load_cache(file, t, clock, path, max_depth),
                    FreshScan(t, sp, path, max_depth, use_index, clock),
                    path, max_depth, force, clock, write_ok)

NoSpotlight == [os |-> "linux", mdfind |-> FALSE, indexed |-> {}, failing |-> {}]

(* The answers of the platform. *)
SpotlightAnswers ==
    { NoSpotlight,
      [os |-> "macos", mdfind |-> FALSE, indexed |-> {}, failing |-> {}],
      [os |-> "macos", mdfind |-> TRUE, indexed |-> UPathSet, failing |-> {}],
      [os |-> "macos", mdfind |-> TRUE, indexed |-> UPathSet, failing |-> {N_node_modules}] }

ScanRoots == {P_w, P_bad}

(* The instants of the program's clock: the start, and 300.5 and 301       *)
(* seconds later.                                                          *)
ProgramInstants ==
    {StartTime, StartTime + 300 * TicksPerSecond + 1, StartTime + 301 * TicksPerSecond}

Init ==
    /\ tree = FullTree
    /\ now = StartTime
    /\ cacheFile = Missing
    /\ ret = Idle

(* handle_scan and handle_clean call perform_scan on a directory that      *)
(* exists. Without --index the platform is not asked.                      *)
PerformScan(path, max_depth, force, use_index, sp, write_ok) ==
    /\ ret.op = "idle"
    /\ IsDir(tree, path)
    /\ (use_index \/ sp = NoSpotlight)
    /\ \E r \in {perform_scan(cacheFile, tree, sp, path, max_depth, force, use_index,
                             now, write_ok)} :
           /\ cacheFile' = r.file
           /\ ret' = [op |-> "perform_scan", path |-> path, max_depth |-> max_depth,
                      force |-> force, use_index |-> use_index, sp |-> sp,
                      source |-> r.source, value |-> r.items, written |-> r.written]
    /\ UNCHANGED <<tree, now>>

(* The command `cache clear`. *)
CacheClear(remove_ok) ==
    /\ ret.op = "idle"
    /\ cacheFile' = clear_cache(cacheFile, remove_ok)
    /\ ret' = [op |-> "clear_cache"]
    /\ UNCHANGED <<tree, now>>

(* Something else writes over the cache file. *)
CorruptCacheFile ==
    /\ ret.op = "idle"
    /\ cacheFile.state = "file"
    /\ cacheFile.content.kind = "json"
    /\ cacheFile' = File(cacheFile.readable, Garbage)
    /\ UNCHANGED <<tree, now, ret>>

(* The permissions of the cache file are taken away. *)
MakeUnreadable ==
    /\ ret.op = "idle"
    /\ cacheFile.state = "file"
    /\ cacheFile.readable
    /\ cacheFile' = File(FALSE, cacheFile.content)
    /\ UNCHANGED <<tree, now, ret>>

Next ==
    \/ \E path \in ScanRoots, max_depth \in CacheDepths, force \in BOOLEAN,
          use_index \in BOOLEAN, sp \in SpotlightAnswers, write_ok \in BOOLEAN :
            PerformScan(path, max_depth, force, use_index, sp, write_ok)
    \/ \E remove_ok \in BOOLEAN : CacheClear(remove_ok)
    \/ Return
    \/ \E t \in ProgramInstants : Tick(t)
    \/ ExternalRemove(P_target)
    \/ CorruptCacheFile
    \/ MakeUnreadable

Spec == Init /\ [][Next]_vars

(* The cache file fails for the scan of path to max_depth: it is missing,  *)
(* unreadable, not the JSON of a record, stale, or recorded for other      *)
(* parameters.                                                             *)
CacheFailure(path, max_depth) ==
    \/ cacheFile.state = "missing"
    \/ ~cacheFile.readable
    \/ cacheFile.content.kind # "json"
    \/ Age > 300 * TicksPerSecond
    \/ Stored.scan_path # path
    \/ Stored.max_depth # max_depth

(* A step of a non-forced perform_scan that starts on a failing cache. *)
MissStep ==
    /\ ret.op = "idle"
    /\ ret'.op = "perform_scan"
    /\ ~ret'.force
    /\ CacheFailure(ret'.path, ret'.max_depth)

(* C10: every cache failure is a cache miss: when the cache file is        *)
(* missing, unreadable, not valid JSON for a ScanCache, stale, or recorded *)
(* for other parameters, load_cache returns None without raising an error, *)
(* and a non-forced perform_scan then runs a fresh scan, returns its       *)
(* result and overwrites the cache with it.                                *)
C10_CacheFailureIsMiss ==
    [][MissStep =>
        /\ load_cache(cacheFile, tree, now, ret'.path, ret'.max_depth) = NoneV
        /\ ret'.source # "cache"
        /\ HoldsRecord(cacheFile')
        /\ from_json(cacheFile'.content.doc)
              = [scan_path |-> ret'.path, scan_time |-> now,
                 items |-> ret'.value, max_depth |-> ret'.max_depth]]_vars


----------------------------------------------------------------------------
(* The cache after a fresh scan: claims checked under Spec.                *)

FreshlyScanned == ret.op = "perform_scan" /\ ret.source # "cache"

(* The record of the scan that just returned. *)
ScanRecord ==
    [scan_path |-> ret.path, scan_time |-> now, items |-> ret.value,
     max_depth |-> ret.max_depth]

(* The other parameters the program scans with. *)
OtherParams ==
    {pd \in ScanRoots \X CacheDepths : pd # <<ret.path, ret.max_depth>>}

LastScanWins ==
    /\ HoldsRecord(cacheFile)
    /\ Stored = ScanRecord
    /\ \A pd \in OtherParams : load_cache(cacheFile, tree, now, pd[1], pd[2]) = NoneV

----------------------------------------------------------------------------
(* The index fails for the platform's answers sp: the tool is not there,   *)
(* or one of the queries of scan_directory_macos fails.                    *)
IndexFails(sp) ==
    \/ sp.os # "macos"
    \/ ~sp.mdfind
    \/ \E i \in 1..Len(Queries) : Queries[i].name \in sp.failing

(* perform_scan ran a fresh scan with --index. *)
IndexedRun ==
    /\ ret.op = "perform_scan"
    /\ ret.use_index
    /\ ret.source # "cache"

(* C15: try_indexed_scan never reports a failed index query as success:    *)
(* when the index tool is unavailable, or any one of the per-name queries  *)
(* fails, it returns Err, so that perform_scan falls back to               *)
(* scan_directory and the items are those of the walk.                     *)
C15_FailedQueryIsErr ==
    (IndexedRun /\ IndexFails(ret.sp)) => ret.source = "walk"

----------------------------------------------------------------------------
(* Deletion: cleaner.rs, delete_items. What the file system answers to a   *)
(* removal is a record failure: failing, the paths whose removal fails;    *)
(* partial, whether remove_dir_all had removed the first entry of the      *)
(* directory when it failed.                                               *)

(* std::fs::remove_dir_all(path).or_else(|_| std::fs::remove_file(path)) *)
remove_item(t, path, failure) ==
    IF ~Exists(t, path) THEN [ok |-> FALSE, tree |-> t]
    ELSE IF path \in failure.failing
    THEN [ok |-> FALSE,
          tree |-> IF failure.partial /\ ChildrenSeq(t, path) # <<>>
                   THEN RemoveSubtree(t, Head(ChildrenSeq(t, path)))
                   ELSE t]
    ELSE [ok |-> TRUE, tree |-> RemoveSubtree(t, path)]

(* The loop that ends at the first removal that fails. *)
RECURSIVE DeleteLoopUntilFailure(_, _, _, _, _)
DeleteLoopUntilFailure(t, items, indices, failure, removed) ==
    IF indices = <<>> THEN [tree |-> t, removed |-> removed]
    ELSE IF Head(indices) \notin 1..Len(items)
    THEN DeleteLoopUntilFailure(t, items, Tail(indices), failure, removed)
    ELSE IF ~remove_item(t, items[Head(indices)].path, failure).ok
    THEN [tree |-> remove_item(t, items[Head(indices)].path, failure).tree,
          removed |-> removed]
    ELSE DeleteLoopUntilFailure(remove_item(t, items[Head(indices)].path, failure).tree,
                                items, Tail(indices), failure,
                                Append(removed, items[Head(indices)].path))

(* The loop of lines 470-492 over the indices; an index out of range is    *)
(* skipped. The result holds the tree left and the paths removed.          *)
RECURSIVE DeleteLoop(_, _, _, _, _)
DeleteLoop(t, items, indices, failure, removed) ==
    IF indices = <<>> THEN [tree |-> t, removed |-> removed]
    ELSE IF Head(indices) \notin 1..Len(items)
    THEN DeleteLoop(t, items, Tail(indices), failure, removed)
    ELSE LET r == remove_item(t, items[Head(indices)].path, failure)
         IN  DeleteLoop(r.tree, items, Tail(indices), failure,
                        IF r.ok THEN Append(removed, items[Head(indices)].path) ELSE removed)

(* delete_items that reports every attempt as a deletion. *)
delete_items_attempted(t, items, indices, dry_run, failure) ==
    IF indices = <<>> THEN [returned |-> FALSE, tree |-> t, removed |-> <<>>]
    ELSE IF dry_run THEN [returned |-> FALSE, tree |-> t, removed |-> <<>>]
    ELSE LET r == DeleteLoop(t, items, indices, failure, <<>>)
         IN  [returned |-> TRUE, tree |-> r.tree, removed |-> r.removed]

(* What delete_items returns, with the tree it leaves and the paths it     *)
(* removed.                                                                *)
delete_items(t, items, indices, dry_run, failure) ==
    IF indices = <<>> THEN [returned |-> FALSE, tree |-> t, removed |-> <<>>]
    ELSE IF dry_run THEN [returned |-> FALSE, tree |-> t, removed |-> <<>>]
    ELSE LET r == DeleteLoop(t, items, indices, failure, <<>>)
         IN  [returned |-> Len(r.removed) > 0, tree |-> r.tree, removed |-> r.removed]


----------------------------------------------------------------------------
(* The commands: main.rs, handle_scan and handle_clean; menu.rs,           *)
(* menu_scan. What a command did is the record it leaves in ret:           *)
(*   outcome    how it ended; "exit_..." is std::process::exit(1)          *)
(*   source     "none" while perform_scan was not called, else where its   *)
(*              items came from                                            *)
(*   written    save_cache replaced the cache file                         *)
(*   scanned    the items perform_scan returned                            *)
(*   value      the items left by the size and category filters            *)
(*   asked, confirmed   confirm_deletion was called, and answered yes      *)
(*   called, returned   delete_items was called, and what it returned      *)
(*   removed    the paths delete_items removed                             *)
(*   cleared    clear_cache was called                                     *)

CommandResult(op, path, max_depth, yes, dry_run, quiet) ==
    [op |-> op, path |-> path, max_depth |-> max_depth,
     yes |-> yes, dry_run |-> dry_run, quiet |-> quiet,
     outcome |-> "running", source |-> "none", written |-> FALSE,
     scanned |-> <<>>, value |-> <<>>,
     use_index |-> FALSE, sp |-> NoSpotlight, threshold |-> NoneV,
     asked |-> FALSE, confirmed |-> FALSE,
     called |-> FALSE, returned |-> FALSE, removed |-> <<>>, cleared |-> FALSE]

(* handle_scan, lines 154-178, and the same lines of handle_clean,         *)
(* 245-269: the size filter on what perform_scan returned, r; parsed is    *)
(* what parse_size made of the --min-size string.                          *)
size_filter(r, min_size, parsed) ==
    [outcome |-> IF min_size.some /\ ~parsed.some THEN "exit_invalid_size" ELSE "scanned",
     file    |-> r.file,
     source  |-> r.source,
     written |-> r.written,
     scanned |-> r.items,
     threshold |-> IF min_size.some THEN parsed ELSE NoneV,
     items   |-> IF ~min_size.some THEN r.items
                 ELSE IF parsed.some THEN retain_min_size(r.items, parsed.value)
                 ELSE <<>>]

(* The scan phase p with the record of the cache written again from the    *)
(* filtered list.                                                          *)
saved_after_filter(p, path, max_depth, clock) ==
    [p EXCEPT !.file = IF p.written
                       THEN save_cache(p.file, path, max_depth, p.items, clock, TRUE)
                       ELSE p.file]

(* perform_scan and the size filter, the filter applied before the save. *)
scan_and_filter_before_save(file, t, sp, path, max_depth, force, use_index, min_size, clock, write_ok) ==
    saved_after_filter(
        size_filter(perform_scan(file, t, sp, path, max_depth, force, use_index, clock, write_ok),
                    min_size,
                    IF min_size.some THEN parse_size(min_size.value) ELSE NoneV),
        path, max_depth, clock)

(* handle_scan, lines 151-178, and the same lines of handle_clean,         *)
(* 242-269: perform_scan, then the size filter.                            *)
scan_and_filter(file, t, sp, path, max_depth, force, use_index, min_size, clock, write_ok) ==
    size_filter(perform_scan(file, t, sp, path, max_depth, force, use_index, clock, write_ok),
                min_size,
                IF min_size.some THEN parse_size(min_size.value) ELSE NoneV)

(* The scan phase without the checks of the path. *)
scan_phase_unchecked(file, t, sp, path, max_depth, force, use_index, min_size, clock, write_ok) ==
    scan_and_filter(file, t, sp, path, max_depth, force, use_index, min_size, clock, write_ok)

(* handle_scan, lines 111-178, and the same lines of handle_clean,         *)
(* 206-269: the checks of the path, then the scan and the size filter.     *)
scan_phase(file, t, sp, path, max_depth, force, use_index, min_size, clock, write_ok) ==
    IF ~Exists(t, path)
    THEN [outcome |-> "exit_path_not_found", file |-> file, source |-> "none",
          written |-> FALSE, scanned |-> <<>>, threshold |-> NoneV, items |-> <<>>]
    ELSE IF ~IsDir(t, path)
    THEN [outcome |-> "exit_not_a_directory", file |-> file, source |-> "none",
          written |-> FALSE, scanned |-> <<>>, threshold |-> NoneV, items |-> <<>>]
    ELSE scan_and_filter(file, t, sp, path, max_depth, force, use_index, min_size, clock,
                         write_ok)

(* The result b of the command with what the scan phase p did. *)
WithScan(b, p) ==
    [b EXCEPT !.source = p.source, !.written = p.written,
              !.scanned = p.scanned, !.value = p.items, !.threshold = p.threshold]

(* The command ends with result r, the cache file being file. *)
Stop(r, file) ==
    /\ ret' = r
    /\ cacheFile' = file
    /\ UNCHANGED <<tree, now>>

(* The answers of the file system to the removals. *)
Failures ==
    { [failing |-> {},         partial |-> FALSE],
      [failing |-> UPathSet,   partial |-> FALSE],
      [failing |-> UPathSet,   partial |-> TRUE],
      [failing |-> {P_target}, partial |-> FALSE] }

(* delete_items, then clear_cache when it returned true: handle_clean,     *)
(* lines 342-347; menu_scan, lines 222-227.                                *)
DeleteAndClear(b, file, items, selections, dry_run) ==
    \E failure \in Failures, remove_ok \in BOOLEAN :
        \E d \in {delete_items(tree, items, selections, dry_run, failure)} :
            /\ tree' = d.tree
            /\ cacheFile' = IF d.returned THEN clear_cache(file, remove_ok) ELSE file
            /\ ret' = [b EXCEPT !.outcome = "done", !.called = TRUE,
                                !.returned = d.returned, !.removed = d.removed,
                                !.cleared = d.returned]
            /\ UNCHANGED now

(* What the user ticks in show_interactive_menu. *)
MenuAnswers(items) == {<<>>, <<1>>, [i \in 1..Len(items) |-> i]}

(* What the user ticks in select_categories. *)
CategoryAnswers == {{}, {"RustTarget", "NodeModules"}}

(* handle_clean from the choice of the items on, lines 319-347. *)
CleanSelected(b, file, items, selections, yes, dry_run, quiet) ==
    \/ /\ selections = <<>>
       /\ Stop([b EXCEPT !.outcome = "no_selection"], file)
    \/ /\ selections # <<>>
       /\ ~yes /\ ~dry_run /\ ~quiet
       /\ \E confirm \in BOOLEAN :
            \/ /\ ~confirm
               /\ Stop([b EXCEPT !.outcome = "cancelled", !.asked = TRUE], file)
            \/ /\ confirm
               /\ DeleteAndClear([b EXCEPT !.asked = TRUE, !.confirmed = TRUE],
                                 file, items, selections, dry_run)
    \/ /\ selections # <<>>
       /\ ~(~yes /\ ~dry_run /\ ~quiet)
       /\ DeleteAndClear(b, file, items, selections, dry_run)

(* handle_clean from the filter on the categories on, lines 292-347. *)
CleanFiltered(b, file, all_items, selected_categories, yes, dry_run, json, quiet) ==
    \E filtered \in {SelectSeq(all_items, LAMBDA item : item.category \in selected_categories)} :
        \/ /\ selected_categories = {}
           /\ Stop([b EXCEPT !.outcome = "no_categories"], file)
        \/ /\ selected_categories # {}
           /\ filtered = <<>>
           /\ Stop([b EXCEPT !.outcome = "no_items", !.value = filtered], file)
        \/ /\ selected_categories # {}
           /\ filtered # <<>>
           /\ json
           /\ Stop([b EXCEPT !.outcome = "json", !.value = filtered], file)
        \/ /\ selected_categories # {}
           /\ filtered # <<>>
           /\ ~json
           /\ \E selections \in (IF yes THEN {[i \in 1..Len(filtered) |-> i]}
                                 ELSE MenuAnswers(filtered)) :
                CleanSelected([b EXCEPT !.value = filtered], file, filtered, selections,
                              yes, dry_run, quiet)

HandleScan(path, max_depth, force, use_index, sp, min_size) ==
    /\ ret.op = "idle"
    /\ (use_index \/ sp = NoSpotlight)
    /\ \E write_ok \in BOOLEAN :
        \E p \in {scan_phase(cacheFile, tree, sp, path, max_depth, force, use_index,
                             min_size, now, write_ok)} :
            Stop([WithScan(CommandResult("handle_scan", path, max_depth, FALSE, FALSE, FALSE), p)
                    EXCEPT !.outcome = IF p.outcome = "scanned" THEN "ok" ELSE p.outcome,
                           !.use_index = use_index, !.sp = sp],
                 p.file)

HandleClean(path, max_depth, category, all, yes, dry_run, force, use_index, sp, min_size, json, quiet) ==
    /\ ret.op = "idle"
    /\ (use_index \/ sp = NoSpotlight)
    /\ \E write_ok \in BOOLEAN :
        \E p \in {scan_phase(cacheFile, tree, sp, path, max_depth, force, use_index,
                             min_size, now, write_ok)} :
          \E b \in {[WithScan(CommandResult("handle_clean", path, max_depth, yes, dry_run, quiet), p)
                        EXCEPT !.use_index = use_index, !.sp = sp]} :
            \/ /\ p.outcome # "scanned"
               /\ Stop([b EXCEPT !.outcome = p.outcome], p.file)
            \/ /\ p.outcome = "scanned"
               /\ ~all /\ category = {} /\ yes
               /\ Stop([b EXCEPT !.outcome = "exit_missing_option"], p.file)
            \/ /\ p.outcome = "scanned"
               /\ ~(~all /\ category = {} /\ yes)
               /\ \E selected_categories \in
                        (IF all THEN {Categories}
                         ELSE IF category # {} THEN {category}
                         ELSE CategoryAnswers) :
                    CleanFiltered(b, p.file, p.items, selected_categories, yes, dry_run,
                                  json, quiet)

(* menu_scan: the scan through handle_scan, then the offer to delete. *)
MenuScan(path, max_depth, force, sp, min_size) ==
    /\ ret.op = "idle"
    /\ \E write_ok \in BOOLEAN, use_index \in (IF sp.os = "macos" THEN BOOLEAN ELSE {FALSE}) :
        \E p \in {scan_phase(cacheFile, tree, sp, path, max_depth, force, use_index,
                             min_size, now, write_ok)} :
          \E b \in {[WithScan(CommandResult("menu_scan", path, max_depth, FALSE, FALSE, FALSE), p)
                        EXCEPT !.use_index = use_index, !.sp = sp]} :
            \/ /\ p.outcome # "scanned"
               /\ Stop([b EXCEPT !.outcome = p.outcome], p.file)
            \/ /\ p.outcome = "scanned"
               /\ p.items = <<>>
               /\ Stop([b EXCEPT !.outcome = "no_items"], p.file)
            \/ /\ p.outcome = "scanned"
               /\ p.items # <<>>
               /\ \E want_delete \in BOOLEAN :
                    \/ /\ ~want_delete
                       /\ Stop([b EXCEPT !.outcome = "kept"], p.file)
                    \/ /\ want_delete
                       /\ \E selections \in MenuAnswers(p.items) :
                            \/ /\ selections = <<>>
                               /\ Stop([b EXCEPT !.outcome = "no_selection"], p.file)
                            \/ /\ selections # <<>>
                               /\ \E dry_run \in BOOLEAN :
                                    \/ /\ dry_run
                                       /\ DeleteAndClear([b EXCEPT !.dry_run = TRUE], p.file,
                                                         p.items, selections, TRUE)
                                    \/ /\ ~dry_run
                                       /\ \E confirm \in BOOLEAN :
                                            \/ /\ ~confirm
                                               /\ Stop([b EXCEPT !.outcome = "cancelled",
                                                                 !.asked = TRUE], p.file)
                                            \/ /\ confirm
                                               /\ DeleteAndClear(
                                                    [b EXCEPT !.asked = TRUE, !.confirmed = TRUE],
                                                    p.file, p.items, selections, FALSE)

----------------------------------------------------------------------------
(* SpecCommands: one command, with every input and every answer of the     *)
(* user and of the file system, run on a cache file that is missing or     *)
(* holds the record of an earlier indexed scan.                            *)

P_absent == Join(P_w, N_out)

CommandPaths == {P_w, P_nm, P_cargo, P_absent}

MaxCommandDepth == 1

CommandDepths == 1..MaxCommandDepth

MinSizes == {NoneV, Some(<<"1", "0", "0", "b">>), Some(<<"a", "b", "c">>)}

CategoryOptions == {{}, {"NodeModules"}}

CommandSpotlight ==
    {NoSpotlight, [os |-> "macos", mdfind |-> TRUE, indexed |-> UPathSet, failing |-> {}]}

CachedRecord ==
    [scan_path |-> P_w, scan_time |-> StartTime,
     items |-> <<ItemPool[1], ItemPool[2]>>, max_depth |-> 1]

InitCommands ==
    /\ tree = FullTree
    /\ now = StartTime
    /\ cacheFile \in {Missing, File(TRUE, Json(to_json(CachedRecord)))}
    /\ ret = Idle

NextCommands ==
    \/ \E path \in CommandPaths, max_depth \in CommandDepths, force \in BOOLEAN,
          use_index \in BOOLEAN, sp \in CommandSpotlight, min_size \in MinSizes :
            HandleScan(path, max_depth, force, use_index, sp, min_size)
    \/ \E path \in CommandPaths, max_depth \in CommandDepths, category \in CategoryOptions,
          all \in BOOLEAN, yes \in BOOLEAN, dry_run \in BOOLEAN, force \in BOOLEAN,
          use_index \in BOOLEAN, sp \in CommandSpotlight, min_size \in MinSizes,
          json \in BOOLEAN, quiet \in BOOLEAN :
            HandleClean(path, max_depth, category, all, yes, dry_run, force, use_index, sp,
                        min_size, json, quiet)
    \/ \E path \in CommandPaths, max_depth \in CommandDepths, force \in BOOLEAN,
          sp \in CommandSpotlight, min_size \in MinSizes :
            MenuScan(path, max_depth, force, sp, min_size)

SpecCommands == InitCommands /\ [][NextCommands]_vars


----------------------------------------------------------------------------
(* The commands: claims checked under SpecCommands.                        *)

(* A step of a command that offers deletion and has run its scan. *)
DeletionRun ==
    /\ ret.op = "idle"
    /\ ret'.op \in {"handle_clean", "menu_scan"}
    /\ ret'.source # "none"

(* The cache file as perform_scan left it in that step. *)
CacheAfterScan ==
    IF ret'.written
    THEN File(IF cacheFile.state = "file" THEN cacheFile.readable ELSE TRUE,
              Json(to_json([scan_path |-> ret'.path, scan_time |-> now,
                            items |-> ret'.scanned, max_depth |-> ret'.max_depth])))
    ELSE cacheFile

(* clear_cache is called exactly when delete_items returned true, which it *)
(* does exactly when it removed an item; a dry run removes nothing.        *)
ClearedIffDeleted ==
    /\ ret'.cleared <=> (ret'.called /\ ret'.returned)
    /\ ret'.returned <=> Len(ret'.removed) > 0
    /\ ret'.dry_run => ret'.removed = <<>>
    /\ ~ret'.called => ret'.removed = <<>>

(* C12, as stated: the cache record is removed after a deletion run if and *)
(* only if the deletion routine removed at least one item; clear_cache is  *)
(* called exactly when delete_items returns true; a dry run, an empty      *)
(* selection or a batch in which every removal failed leaves the cache     *)
(* record unchanged.                                                       *)
C12_ClearedIffItemRemoved ==
    [][DeletionRun =>
        /\ ClearedIffDeleted
        /\ cacheFile' = IF Len(ret'.removed) > 0 THEN Missing ELSE CacheAfterScan]_vars

(* C12, amended: clear_cache is called exactly when delete_items returned  *)
(* true, that is when at least one removal succeeded; then the cache file  *)
(* is gone, or, when its removal failed, left as it was; in every other    *)
(* run the cache file is as perform_scan left it.                          *)
C12_ClearCalledIffItemRemoved ==
    [][DeletionRun =>
        /\ ClearedIffDeleted
        /\ cacheFile' \in (IF Len(ret'.removed) > 0 THEN {Missing, CacheAfterScan}
                           ELSE {CacheAfterScan})]_vars

(* handle_clean removed an item and the cache file, which held a record,   *)
(* is gone.                                                                *)
C12_Witness ==
    /\ ret.op = "handle_clean"
    /\ ret.source = "cache"
    /\ ret.called /\ ret.returned /\ ret.cleared
    /\ Len(ret.removed) > 0
    /\ cacheFile = Missing


(* C13: a malformed size-filter string is rejected before any scanning:    *)
(* when parse_size fails on min_size, handle_scan and handle_clean report  *)
(* the error and stop without having walked the tree, queried the index or *)
(* written the cache.                                                      *)
C13_BadSizeRejectedBeforeScan ==
    (ret.op \in {"handle_scan", "handle_clean"} /\ ret.outcome = "exit_invalid_size")
        => (ret.source = "none" /\ ~ret.written)


(* A step of handle_scan or handle_clean. *)
CommandStep ==
    /\ ret.op = "idle"
    /\ ret'.op \in {"handle_scan", "handle_clean"}

(* C14: a missing or non-directory root is rejected before scanning        *)
(* begins: handle_scan and handle_clean terminate with an error without    *)
(* calling perform_scan, so no walk is started and the cache is neither    *)
(* read nor written; a root that is a directory is not rejected.           *)
C14_BadRootRejectedBeforeScan ==
    [][CommandStep =>
        /\ ~Exists(tree, ret'.path) <=> ret'.outcome = "exit_path_not_found"
        /\ (Exists(tree, ret'.path) /\ ~IsDir(tree, ret'.path))
              <=> ret'.outcome = "exit_not_a_directory"
        /\ ~IsDir(tree, ret'.path)
              => /\ ret'.source = "none"
                 /\ ~ret'.written
                 /\ ~ret'.called
                 /\ cacheFile' = cacheFile
                 /\ tree' = tree]_vars

(* handle_clean was given a file as its root while the cache held a        *)
(* record: it stopped and the record is still there.                       *)
C14_Witness ==
    /\ ret.op = "handle_clean"
    /\ ret.path = P_cargo
    /\ ret.outcome = "exit_not_a_directory"
    /\ ret.source = "none"
    /\ HoldsRecord(cacheFile)


----------------------------------------------------------------------------
(* SpecIndexed: try_indexed_scan over the second file system, for roots    *)
(* given as absolute paths and as ".", while marker files and directories  *)
(* come and go.                                                            *)

IndexRoots == {P_x, <<N_cur>>, P_x_nm}

(* Largest max_depth handed to the indexed scan. *)
MaxIndexDepth == 1

IndexSpotlight ==
    { NoSpotlight,
      [os |-> "macos", mdfind |-> TRUE, indexed |-> IPathSet, failing |-> {}],
      [os |-> "macos", mdfind |-> TRUE, indexed |-> IPathSet \ {P_x_a_target},
       failing |-> {}] }

IndexRemovable == {P_x_a_cargo, P_x_m_pom, P_x_v_composer, P_x_nm_dist}

InitIndexed ==
    /\ tree = IndexTree
    /\ now = StartTime
    /\ cacheFile = Missing
    /\ ret = Idle

TryIndexedScan(path, max_depth, sp) ==
    /\ ret.op = "idle"
    /\ \E r \in {try_indexed_scan(tree, sp, path, max_depth, now)} :
           ret' = [op |-> "try_indexed_scan", path |-> path, max_depth |-> max_depth,
                   sp |-> sp, ok |-> r.ok, value |-> IF r.ok THEN r.items ELSE <<>>]
    /\ UNCHANGED <<tree, now, cacheFile>>

NextIndexed ==
    \/ \E path \in IndexRoots, max_depth \in 0..MaxIndexDepth, sp \in IndexSpotlight :
            TryIndexedScan(path, max_depth, sp)
    \/ Return
    \/ \E p \in IndexRemovable : ExternalRemove(p)

SpecIndexed == InitIndexed /\ [][NextIndexed]_vars

(* The indexed scan returned items. *)
IndexedOk == ret.op = "try_indexed_scan" /\ ret.ok

(* The category the query for a name stands for. *)
QueryCategory(name) ==
    Queries[CHOOSE i \in 1..Len(Queries) : Queries[i].name = name].cat

(* C16: every item returned by the indexed scan is a directory under the   *)
(* root whose category is the one is_deletable returns for its path; a hit *)
(* whose detected category differs from the category of its query is       *)
(* discarded, except for the vendor query, which accepts GoVendor,         *)
(* PHPVendor and RubyGems.                                                 *)
C16_IndexedItemsAreDetected ==
    IndexedOk =>
        \A i \in 1..Len(ret.value) :
            LET item == ret.value[i]
            IN  /\ IsDir(tree, item.path)
                /\ \/ StartsWith(item.path, ret.path)
                   \/ StartsWith(item.path, Resolve(ret.path))
                /\ item.category = is_deletable(tree, item.path)
                /\ \E q \in 1..Len(Queries) : Queries[q].name = Last(item.path)
                /\ \/ item.category = QueryCategory(Last(item.path))
                   \/ /\ Last(item.path) = N_vendor
                      /\ item.category \in {"GoVendor", "PHPVendor", "RubyGems"}

(* The scan of /x kept the Composer vendor directory found by the vendor   *)
(* query and the Cargo target, and discarded the Maven target that the     *)
(* index also reported.                                                    *)
C16_Witness ==
    /\ IndexedOk
    /\ ret.path = P_x
    /\ P_x_m_target \in ret.sp.indexed
    /\ is_deletable(tree, P_x_m_target) = "MavenTarget"
    /\ \A i \in 1..Len(ret.value) : ret.value[i].path # P_x_m_target
    /\ \E i \in 1..Len(ret.value) :
           ret.value[i].path = P_x_v_vendor /\ ret.value[i].category = "PHPVendor"
    /\ \E i \in 1..Len(ret.value) :
           ret.value[i].path = P_x_a_target /\ ret.value[i].category = "RustTarget"


(* The form of the root that the hit p was accepted under. *)
AcceptedRoot(p) == IF StartsWith(p, ret.path) THEN ret.path ELSE Resolve(ret.path)

(* C17: the indexed scan keeps the invariant of the walking scan that      *)
(* nothing is counted twice: no item it returns has a proper ancestor      *)
(* below the root that is_deletable classifies as deletable, whether the   *)
(* hit lies under the root as given or under its canonical form.           *)
C17_IndexedItemsNotNested ==
    IndexedOk =>
        \A i \in 1..Len(ret.value) :
            LET p == ret.value[i].path
            IN  \A k \in (Len(AcceptedRoot(p)) + 1)..(Len(p) - 1) :
                    is_deletable(tree, SubSeq(p, 1, k)) = NoneC


----------------------------------------------------------------------------
(* SpecClassify: is_deletable over project directories whose marker files  *)
(* and build folders come and go, one of them inside a global cache        *)
(* location.                                                               *)

N_dot_m2 == <<".","m","2">>

N_repository == <<"r","e","p","o","s","i","t","o","r","y">>

P_c == <<<<"c">>>>
P_m2 == <<N_dot_m2>>
P_m2_repo == Join(P_m2, N_repository)
P_q_target == <<<<"q">>, N_target>>

ProjectDirNames == {N_target, N_build, N_vendor, N_dot_build, N_bin, N_obj}

MarkerNames ==
    {N_Cargo_toml, N_pom_xml, N_build_gradle, N_build_gradle_kts, N_composer_json,
     N_go_mod, N_go_sum, N_Gemfile, N_Gemfile_lock, N_Package_swift,
     <<"a">> \o X_csproj, <<"a">> \o X_vbproj, <<"a">> \o X_fsproj,
     <<BadByte>> \o X_csproj}

CacheDirNames == {N_target, N_build, N_vendor, N_dot_build}

(* The entries that are created and removed. *)
ClassifyPool ==
    {[path |-> Join(P_c, n), kind |-> "dir"] : n \in ProjectDirNames}
        \cup {[path |-> Join(P_c, n), kind |-> "file"] : n \in MarkerNames}
        \cup {[path |-> Join(P_m2_repo, n), kind |-> "dir"] : n \in CacheDirNames}

(* The paths handed to is_deletable: the directories of the pool that      *)
(* exist, and a path whose parent does not exist.                          *)
ClassifyPaths(t) ==
    {e.path : e \in {e \in ClassifyPool : e.kind = "dir" /\ Exists(t, e.path)}}
        \cup {P_q_target}

ClassifyBase ==
    [p \in {P_root, P_c, P_m2, P_m2_repo} |-> RootEntry]

(* Largest number of pool entries that exist at a time. *)
MaxEntries == 3

InitClassify ==
    /\ tree = ClassifyBase
    /\ now = StartTime
    /\ cacheFile = Missing
    /\ ret = Idle

CreateEntry(e) ==
    /\ ret.op = "idle"
    /\ ~Exists(tree, e.path)
    /\ Cardinality(DOMAIN tree) < Cardinality(DOMAIN ClassifyBase) + MaxEntries
    /\ tree' = [p \in DOMAIN tree \cup {e.path} |->
                   IF p = e.path THEN [kind |-> e.kind, len |-> 0, mtime |-> MTime]
                   ELSE tree[p]]
    /\ UNCHANGED <<now, cacheFile, ret>>

Classify(path) ==
    /\ ret.op = "idle"
    /\ path \in ClassifyPaths(tree)
    /\ ret' = [op |-> "is_deletable", path |-> path, value |-> is_deletable(tree, path)]
    /\ UNCHANGED <<tree, now, cacheFile>>

NextClassify ==
    \/ \E e \in ClassifyPool : CreateEntry(e)
    \/ \E e \in ClassifyPool : ExternalRemove(e.path)
    \/ \E path \in {e.path : e \in ClassifyPool} \cup {P_q_target} : Classify(path)
    \/ Return

SpecClassify == InitClassify /\ [][NextClassify]_vars

(* is_deletable was called on a directory with this name. *)
ClassifiedDir(name) ==
    /\ ret.op = "is_deletable"
    /\ Last(ret.path) = name
    /\ IsDir(tree, ret.path)

(* The parent of the classified path holds an entry with this name. *)
HasMarker(name) == Exists(tree, Join(Parent(ret.path), name))

HasGradle == HasMarker(N_build_gradle) \/ HasMarker(N_build_gradle_kts)

HasGo == HasMarker(N_go_mod) \/ HasMarker(N_go_sum)

HasBundler == HasMarker(N_Gemfile) \/ HasMarker(N_Gemfile_lock)

(* C18: when the name of a directory and the marker files of its parent    *)
(* satisfy more than one rule, the first rule in the order wins: target    *)
(* with Cargo.toml, then target with pom.xml, build with build.gradle or   *)
(* build.gradle.kts; vendor with composer.json before go.mod or go.sum     *)
(* before Gemfile; and only then the generic build rule. So vendor with    *)
(* composer.json and go.mod is PHPVendor, and build with build.gradle is   *)
(* GradleBuild, never BuildCache.                                          *)
C18_FirstRuleWins ==
    /\ (ClassifiedDir(N_target) /\ HasMarker(N_Cargo_toml)) => ret.value = "RustTarget"
    /\ (ClassifiedDir(N_target) /\ ~HasMarker(N_Cargo_toml) /\ HasMarker(N_pom_xml))
          => ret.value = "MavenTarget"
    /\ (ClassifiedDir(N_build) /\ HasGradle) => ret.value = "GradleBuild"
    /\ (ClassifiedDir(N_build) /\ ~HasGradle) => ret.value = "BuildCache"
    /\ (ClassifiedDir(N_vendor) /\ HasMarker(N_composer_json)) => ret.value = "PHPVendor"
    /\ (ClassifiedDir(N_vendor) /\ ~HasMarker(N_composer_json) /\ HasGo)
          => ret.value = "GoVendor"
    /\ (ClassifiedDir(N_vendor) /\ ~HasMarker(N_composer_json) /\ ~HasGo /\ HasBundler)
          => ret.value = "RubyGems"

(* vendor beside composer.json and go.mod was classified PHPVendor. *)
C18_Witness ==
    /\ ClassifiedDir(N_vendor)
    /\ HasMarker(N_composer_json)
    /\ HasMarker(N_go_mod)
    /\ ret.value = "PHPVendor"


(* What the marker rules say, whatever the directory without a marker is   *)
(* classified as.                                                          *)
MarkerRequired ==
    /\ (ClassifiedDir(N_target) /\ ret.value = "RustTarget") => HasMarker(N_Cargo_toml)
    /\ (ClassifiedDir(N_target) /\ ret.value = "MavenTarget") => HasMarker(N_pom_xml)
    /\ (ClassifiedDir(N_build) /\ ret.value = "GradleBuild") => HasGradle
    /\ (ClassifiedDir(N_dot_build) /\ ret.value = "SwiftBuild") => HasMarker(N_Package_swift)
    /\ (ClassifiedDir(N_vendor) /\ ret.value = "PHPVendor") => HasMarker(N_composer_json)
    /\ (ClassifiedDir(N_vendor) /\ ret.value = "GoVendor") => HasGo
    /\ (ClassifiedDir(N_vendor) /\ ret.value = "RubyGems") => HasBundler
    /\ (ClassifiedDir(N_build) /\ ~HasGradle) => ret.value = "BuildCache"
    /\ (ret.op = "is_deletable" /\ ~Exists(tree, Parent(ret.path)))
          => /\ \A id \in {"cargo", "maven", "gradle", "composer", "go", "dotnet",
                           "packages", "swift", "bundler"} : ~Probe(id, tree, ret.path)
             /\ ret.value = NoneC

(* A directory named target, .build or vendor was classified and its       *)
(* parent holds none of the markers of its name.                           *)
WithoutMarker ==
    \/ ClassifiedDir(N_target) /\ ~HasMarker(N_Cargo_toml) /\ ~HasMarker(N_pom_xml)
    \/ ClassifiedDir(N_dot_build) /\ ~HasMarker(N_Package_swift)
    \/ ClassifiedDir(N_vendor) /\ ~HasMarker(N_composer_json) /\ ~HasGo /\ ~HasBundler

(* The path lies in one of the global cache locations of the last arm. *)
InGlobalCache(path) ==
    \E sub \in {S_npm_cacache, S_cache_pip, S_cache_yarn, S_m2_repository} :
        Contains(PathStr(path), sub)

ProjectFileName(s) ==
    EndsWith(s, X_csproj) \/ EndsWith(s, X_vbproj) \/ EndsWith(s, X_fsproj)

(* The names of the entries beside the classified path. *)
SiblingNames == {Last(q) : q \in {q \in DOMAIN tree : q # <<>> /\ Parent(q) = Parent(ret.path)}}

(* The folder that a .NET build pairs with the classified one. *)
Counterpart == IF Last(ret.path) = N_bin THEN N_obj ELSE N_bin

C21_GlobalCacheIsPackageCache ==
    (ret.op = "is_deletable" /\ Exists(tree, ret.path) /\ InGlobalCache(ret.path))
        => ret.value = "PackageCache"


----------------------------------------------------------------------------
(* SpecParse: parse_size on decimal numerals, small and around the limits  *)
(* of 64 bits, followed by every suffix in several letter cases, and on    *)
(* strings that are no numerals.                                           *)

Numerals ==
    { <<"0">>,
      <<"1">>,
      <<"7">>,
      <<"0", "0", "7">>,
      <<"+", "5">>,
      <<"1", "0", "0">>,
      <<"5", "0", "0">>,
      <<"1", "0", "2", "4">>,
      <<"1", "6", "7", "7", "7", "2", "1", "5">>,
      <<"1", "6", "7", "7", "7", "2", "1", "6">>,
      <<"1", "8", "0", "1", "4", "3", "9", "8", "5", "0", "9", "4", "8", "1", "9", "8", "3">>,
      <<"1", "8", "0", "1", "4", "3", "9", "8", "5", "0", "9", "4", "8", "1", "9", "8", "4">>,
      <<"1", "8", "4", "4", "6", "7", "4", "4", "0", "7", "3", "7", "0", "9", "5", "5", "1", "6", "1", "5">>,
      <<"1", "8", "4", "4", "6", "7", "4", "4", "0", "7", "3", "7", "0", "9", "5", "5", "1", "6", "1", "6">>,
      <<"9", "9", "9", "9", "9", "9", "9", "9", "9", "9", "9", "9", "9", "9", "9", "9", "9", "9", "9", "9">> }

NotNumerals ==
    { <<>>,
      <<"a", "b", "c">>,
      <<"1", "x">>,
      <<"-", "1">>,
      <<"1", ".", "5">>,
      <<"1", " ", "0">> }

(* The suffixes as they are typed, and the power of 1024 each stands for.  *)
SuffixTexts ==
    { [text |-> <<>>, pow |-> 0],
      [text |-> <<"B">>, pow |-> 0],
      [text |-> <<"b">>, pow |-> 0],
      [text |-> <<"K", "B">>, pow |-> 1],
      [text |-> <<"k", "b">>, pow |-> 1],
      [text |-> <<"K", "b">>, pow |-> 1],
      [text |-> <<"M", "B">>, pow |-> 2],
      [text |-> <<"m", "b">>, pow |-> 2],
      [text |-> <<"m", "B">>, pow |-> 2],
      [text |-> <<"G", "B">>, pow |-> 3],
      [text |-> <<"g", "b">>, pow |-> 3],
      [text |-> <<"T", "B">>, pow |-> 4],
      [text |-> <<"t", "b">>, pow |-> 4],
      [text |-> <<"t", "B">>, pow |-> 4],
      [text |-> <<" ", "M", "B">>, pow |-> 2] }

InitParse ==
    /\ tree = FullTree
    /\ now = StartTime
    /\ cacheFile = Missing
    /\ ret = Idle

ParseSize(number, suffix) ==
    /\ ret.op = "idle"
    /\ ret' = [op |-> "parse_size", number |-> number, suffix |-> suffix,
               value |-> parse_size(number \o suffix.text)]
    /\ UNCHANGED <<tree, now, cacheFile>>

NextParse ==
    \/ \E number \in Numerals \cup NotNumerals, suffix \in SuffixTexts :
            ParseSize(number, suffix)
    \/ Return

SpecParse == InitParse /\ [][NextParse]_vars

(* The number a numeral stands for, of any size, as limbs. *)
RECURSIVE NumeralValue(_, _)
NumeralValue(s, acc) ==
    IF s = <<>> THEN acc
    ELSE IF Head(s) = "+" THEN NumeralValue(Tail(s), acc)
    ELSE NumeralValue(Tail(s), MulAdd(acc, 10, DigitValue(Head(s))))

(* min(n * 1024^k, 2^64 - 1) *)
Reference(n, k) ==
    LET product == IF n = <<>> THEN <<>> ELSE [i \in 1..k |-> 0] \o n
    IN  IF LimbsGeq(U64_MAX, product) THEN product ELSE U64_MAX

ParsedNumeral == ret.op = "parse_size" /\ ret.number \in Numerals

ParsedOther == ret.op = "parse_size" /\ ret.number \in NotNumerals

(* The examples: "100MB", "1GB" and "500". *)
ParseExamples ==
    /\ (ParsedNumeral /\ ret.number = <<"1", "0", "0">> /\ ret.suffix.text = <<"M", "B">>)
          => ret.value = Some(<<0, 0, 100>>)
    /\ (ParsedNumeral /\ ret.number = <<"1">> /\ ret.suffix.text = <<"G", "B">>)
          => ret.value = Some(<<0, 0, 0, 1>>)
    /\ (ParsedNumeral /\ ret.number = <<"5", "0", "0">> /\ ret.suffix.text = <<>>)
          => ret.value = Some(<<500>>)

(* C22: parse_size agrees with the reference: for every non-negative       *)
(* integer n and suffix none, B, KB, MB, GB or TB in any letter case,      *)
(* parse_size(n followed by the suffix) is min(n * 1024^k, 2^64 - 1) with  *)
(* k = 0, 0, 1, 2, 3, 4; a string whose numeric part is not an unsigned    *)
(* integer gives Err.                                                      *)
C22_ParseSizeIsReference ==
    /\ ParsedNumeral
          => ret.value = Some(Reference(NumeralValue(ret.number, <<>>), ret.suffix.pow))
    /\ ParsedOther => ret.value = NoneV
    /\ ParseExamples

(* C22, amended: the same for every n up to 2^64 - 1; a numeral that       *)
(* stands for 2^64 or more gives Err, whatever the suffix.                 *)
C22_ParseSizeIsReferenceBelowLimit ==
    /\ ParsedNumeral
          => ret.value =
                IF LimbsGeq(U64_MAX, NumeralValue(ret.number, <<>>))
                THEN Some(Reference(NumeralValue(ret.number, <<>>), ret.suffix.pow))
                ELSE NoneV
    /\ ParsedOther => ret.value = NoneV
    /\ ParseExamples

(* 2^54 followed by kb was parsed: the product is 2^64 and the result      *)
(* 2^64 - 1.                                                               *)
C22_Witness ==
    /\ ParsedNumeral
    /\ ret.number = <<"1", "8", "0", "1", "4", "3", "9", "8", "5", "0", "9", "4", "8", "1", "9", "8", "4">>
    /\ ret.suffix.text = <<"k", "b">>
    /\ ret.value = Some(U64_MAX)


----------------------------------------------------------------------------
(* SpecSize: calculate_dir_size_parallel over directories that hold        *)
(* regular files, an empty file, a symlink, a FIFO, a directory that       *)
(* cannot be listed and a file whose metadata cannot be read.              *)

P_s == <<<<"s">>>>
P_s_a == Join(P_s, <<"a">>)
P_s_b == Join(P_s, <<"b">>)
P_s_e == Join(P_s, <<"e">>)
P_s_sub == Join(P_s, <<"s","u","b">>)
P_s_sub_c == Join(P_s_sub, <<"c">>)
P_s_sub_lnk == Join(P_s_sub, <<"l","n","k">>)
P_s_fifo == Join(P_s, <<"f","i","f","o">>)
P_s_locked == Join(P_s, <<"l","o","c","k","e","d">>)
P_s_locked_u == Join(P_s_locked, <<"u">>)
P_s_lost == Join(P_s, <<"l","o","s","t">>)

SizeUniverse ==
    << [path |-> P_s,          kind |-> "dir",     len |-> 0],
       [path |-> P_s_a,        kind |-> "file",    len |-> 100],
       [path |-> P_s_b,        kind |-> "file",    len |-> 200],
       [path |-> P_s_e,        kind |-> "file",    len |-> 0],
       [path |-> P_s_sub,      kind |-> "dir",     len |-> 64],
       [path |-> P_s_sub_c,    kind |-> "file",    len |-> 40],
       [path |-> P_s_sub_lnk,  kind |-> "symlink", len |-> 7],
       [path |-> P_s_fifo,     kind |-> "special", len |-> 9],
       [path |-> P_s_locked,   kind |-> "locked",  len |-> 64],
       [path |-> P_s_locked_u, kind |-> "file",    len |-> 1000],
       [path |-> P_s_lost,     kind |-> "lost",    len |-> 500] >>

SPathSet == {SizeUniverse[i].path : i \in 1..Len(SizeUniverse)}

SizeTreeOf(S) ==
    [p \in S \cup {P_root} |->
        IF p = P_root THEN RootEntry
        ELSE LET e == SizeUniverse[CHOOSE i \in 1..Len(SizeUniverse) :
                                       SizeUniverse[i].path = p]
             IN  [kind |-> e.kind, len |-> e.len, mtime |-> MTime]]

SizeTrees ==
    {SizeTreeOf(S) : S \in {S \in SUBSET SPathSet : P_s \in S /\ ParentClosed(S)}}

InitSize ==
    /\ tree \in SizeTrees
    /\ now = StartTime
    /\ cacheFile = Missing
    /\ ret = Idle

CalculateDirSize(path) ==
    /\ ret.op = "idle"
    /\ IsDir(tree, path)
    /\ ret' = [op |-> "calculate_dir_size_parallel", path |-> path,
               value |-> calculate_dir_size_parallel(tree, path)]
    /\ UNCHANGED <<tree, now, cacheFile>>

NextSize == \E path \in {P_s, P_s_sub} : CalculateDirSize(path)

SpecSize == InitSize /\ [][NextSize]_vars

(* The bytes below directory d, summed entry by entry down the tree: a     *)
(* regular file adds its length, a directory that can be listed what is    *)
(* below it, every other entry nothing.                                    *)
RECURSIVE BytesBelow(_), BytesOfAll(_)
BytesBelow(d) == BytesOfAll({q \in DOMAIN tree : q # <<>> /\ Parent(q) = d})

BytesOfAll(S) ==
    IF S = {} THEN 0
    ELSE LET q == CHOOSE q \in S : TRUE
         IN  (CASE tree[q].kind = "file" -> tree[q].len
                [] tree[q].kind = "dir"  -> BytesBelow(q)
                [] OTHER                 -> 0)
             + BytesOfAll(S \ {q})

(* The directory of the example: files of 100, 200 and 0 bytes and one     *)
(* file in a directory that cannot be listed.                              *)
ExampleTree == SizeTreeOf({P_s, P_s_a, P_s_b, P_s_e, P_s_locked, P_s_locked_u})

(* C23: calculate_dir_size_parallel returns the sum of the byte lengths of *)
(* every regular file beneath the directory; symlinks, directories and     *)
(* special files add nothing, and an entry that cannot be traversed or     *)
(* whose metadata cannot be read adds 0 without aborting the sum: files of *)
(* 100, 200 and 0 bytes plus one unreadable nested file give 300.          *)
C23_SizeIsSumOfRegularFiles ==
    ret.op = "calculate_dir_size_parallel" =>
        /\ ret.value = BytesBelow(ret.path)
        /\ (tree = ExampleTree /\ ret.path = P_s) => ret.value = 300

(* The size of /s was taken while it held all its entries: 340 bytes, of   *)
(* a, b, e and sub/c.                                                      *)
C23_Witness ==
    /\ ret.op = "calculate_dir_size_parallel"
    /\ ret.path = P_s
    /\ DOMAIN tree = SPathSet \cup {P_root}
    /\ ret.value = 340


----------------------------------------------------------------------------
(* SpecDelete: delete_items called again and again with lists of items,    *)
(* selections that hold indices out of range, and removals that fail.      *)

(* Largest index of a selection; the lists hold at most MaxItems items.    *)
MaxIndex == 4

Selections == {<<>>, <<1>>, <<2, 1>>, <<1, 2, 3>>, <<MaxIndex>>, <<1, MaxIndex, 2>>}

InitDelete ==
    /\ tree = FullTree
    /\ now = StartTime
    /\ cacheFile = Missing
    /\ ret = Idle

DeleteItems(items, indices, dry_run, failure) ==
    /\ ret.op = "idle"
    /\ \E d \in {delete_items(tree, items, indices, dry_run, failure)} :
          /\ tree' = d.tree
          /\ ret' = [op |-> "delete_items", items |-> items, indices |-> indices,
                     dry_run |-> dry_run, failure |-> failure,
                     returned |-> d.returned, removed |-> d.removed]
    /\ UNCHANGED <<now, cacheFile>>

NextDelete ==
    \/ \E items \in ItemLists, indices \in Selections, dry_run \in BOOLEAN,
          failure \in Failures : DeleteItems(items, indices, dry_run, failure)
    \/ Return

SpecDelete == InitDelete /\ [][NextDelete]_vars

(* The paths of the items that the selection d.indices names in d.items. *)
SelectedPaths(d) ==
    {d.items[d.indices[j]].path :
        j \in {j \in 1..Len(d.indices) : d.indices[j] \in 1..Len(d.items)}}

(* C24: delete_items attempts every selected item: a failed removal of one *)
(* item does not stop the attempts on the items after it, and indices out  *)
(* of range are skipped; when not a dry run it returns true if and only if *)
(* at least one removal succeeded; in a dry run or with an empty selection *)
(* it removes nothing and returns false.                                   *)
C24_EveryItemAttempted ==
    [][(ret.op = "idle" /\ ret'.op = "delete_items") =>
        IF ret'.dry_run \/ ret'.indices = <<>>
        THEN tree' = tree /\ ~ret'.returned /\ ret'.removed = <<>>
        ELSE /\ ret'.returned <=> Len(ret'.removed) > 0
             /\ \A p \in SelectedPaths(ret') :
                    (Exists(tree, p) /\ p \notin ret'.failure.failing) => ~Exists(tree', p)
             /\ \A j \in 1..Len(ret'.removed) :
                    /\ ret'.removed[j] \in SelectedPaths(ret')
                    /\ Exists(tree, ret'.removed[j])
                    /\ ~Exists(tree', ret'.removed[j])
             /\ \A q \in DOMAIN tree \ DOMAIN tree' :
                    \E p \in SelectedPaths(ret') : StartsWith(q, p)]_vars

(* The removal of the first item failed, the index out of range was        *)
(* skipped and the item after them was removed.                            *)
C24_Witness ==
    /\ ret.op = "delete_items"
    /\ ~ret.dry_run
    /\ ret.indices = <<1, MaxIndex, 2>>
    /\ Len(ret.items) = 2
    /\ ret.items[1].path = P_target
    /\ Exists(tree, P_target)
    /\ ret.removed = <<ret.items[2].path>>
    /\ ret.returned


----------------------------------------------------------------------------
(* C25: deletion is always confirmed: a run of handle_clean removes        *)
(* something only if --yes was given or confirm_deletion returned true; in *)
(* every other run, whatever the flags, --quiet included, the tree is left *)
(* as it was.                                                              *)
C25_DeletionAlwaysConfirmed ==
    [][(ret.op = "idle" /\ ret'.op = "handle_clean" /\ tree' # tree) =>
        (ret'.yes \/ ret'.confirmed)]_vars


----------------------------------------------------------------------------
(* Forced scans: claims checked under Spec.                                *)

(* A step of a perform_scan with force set. *)
ForcedStep ==
    /\ ret.op = "idle"
    /\ ret'.op = "perform_scan"
    /\ ret'.force

(* The forced scan returned what a scan returns that finds no cache file:  *)
(* the cache was not consulted.                                            *)
CacheIgnored ==
    /\ ret'.source # "cache"
    /\ ret'.source = FreshScan(tree, ret'.sp, ret'.path, ret'.max_depth, ret'.use_index, now).source
    /\ ret'.value = FreshScan(tree, ret'.sp, ret'.path, ret'.max_depth, ret'.use_index, now).items

(* The cache file holds the record of the scan of this step. *)
RecordOverwritten ==
    /\ HoldsRecord(cacheFile')
    /\ from_json(cacheFile'.content.doc)
          = [scan_path |-> ret'.path, scan_time |-> now,
             items |-> ret'.value, max_depth |-> ret'.max_depth]

----------------------------------------------------------------------------
(* C27: the depth bound holds across the cache: every item returned by     *)
(* perform_scan(path, max_depth) with use_index false lies at most         *)
(* max_depth levels below path, whatever came before the call, an indexed  *)
(* scan of the same path and max_depth within the validity window          *)
(* included.                                                               *)
C27_DepthBoundAcrossCache ==
    (ret.op = "perform_scan" /\ ~ret.use_index) =>
        \A i \in 1..Len(ret.value) :
            /\ StartsWith(ret.value[i].path, ret.path)
            /\ Len(ret.value[i].path) - Len(ret.path) <= ret.max_depth


----------------------------------------------------------------------------
(* A step of a perform_scan without force. *)
UnforcedStep ==
    /\ ret.op = "idle"
    /\ ret'.op = "perform_scan"
    /\ ~ret'.force

(* The cache file holds a readable record for the parameters of the step,  *)
(* written more than 300 seconds ago.                                      *)
RecordExpired ==
    /\ HoldsRecord(cacheFile)
    /\ cacheFile.readable
    /\ Stored.scan_path = ret'.path
    /\ Stored.max_depth = ret'.max_depth
    /\ Age > 300 * TicksPerSecond

(* C28: a cache hit does not refresh the record: a perform_scan without    *)
(* force that is served from the cache neither rescans nor writes the      *)
(* cache file, so scan_time stays that of the fresh scan that made the     *)
(* record; once more than 300 seconds have passed since that scan, the     *)
(* next perform_scan with the same parameters runs a fresh scan and        *)
(* rewrites the record.                                                    *)
C28_HitDoesNotRefresh ==
    [][UnforcedStep =>
        /\ (ret'.source = "cache") => (cacheFile' = cacheFile)
        /\ RecordExpired => (ret'.source # "cache" /\ RecordOverwritten)]_vars


----------------------------------------------------------------------------
(* A step of handle_scan or handle_clean that ran its scan and whose       *)
(* --min-size, if any, was parsed.                                         *)
FilteredStep ==
    /\ ret.op = "idle"
    /\ ret'.op \in {"handle_scan", "handle_clean"}
    /\ ret'.source # "none"
    /\ ret'.outcome # "exit_invalid_size"

(* The items of size at least the threshold, in order; all of them when    *)
(* there is no threshold.                                                  *)
AtLeast(items, threshold) ==
    SelectSeq(items, LAMBDA item :
        threshold.some => LimbsGeq(Limbs(item.size), threshold.value))

(* The items of the list. *)
ItemsOf(items) == {items[i] : i \in 1..Len(items)}

(* What a scan of the same path and depth, right after the step and        *)
(* without threshold, returns.                                             *)
LaterScan(write_ok) ==
    perform_scan(cacheFile', tree', ret'.sp, ret'.path, ret'.max_depth, FALSE,
                 ret'.use_index, now', write_ok).items

(* C29: the minimum-size filter never changes what is cached: the cache    *)
(* file after the command is the one perform_scan left, its record made of *)
(* the unfiltered items; the list the handlers go on with holds exactly    *)
(* the scanned or cached items of size at least the parsed threshold; and  *)
(* a later scan of the same path and depth within the validity window,     *)
(* without threshold, still returns the items filtered out.                *)
C29_FilterLeavesCacheAlone ==
    [][FilteredStep =>
        /\ cacheFile' \in (IF ret'.cleared THEN {Missing, CacheAfterScan}
                           ELSE {CacheAfterScan})
        /\ (ret'.written /\ ~ret'.cleared)
              => (HoldsRecord(cacheFile') /\ from_json(cacheFile'.content.doc).items = ret'.scanned)
        /\ IF ret'.op = "handle_scan"
           THEN ret'.value = AtLeast(ret'.scanned, ret'.threshold)
           ELSE \A i \in 1..Len(ret'.value) :
                    \E j \in 1..Len(ret'.scanned) :
                        /\ ret'.value[i] = ret'.scanned[j]
                        /\ ret'.value[i] \in ItemsOf(AtLeast(ret'.scanned, ret'.threshold))
        /\ (tree' = tree)
              => \A write_ok \in BOOLEAN :
                    ItemsOf(ret'.scanned) \subseteq ItemsOf(LaterScan(write_ok))]_vars

(* handle_scan wrote the record of a scan and the filter dropped an item   *)
(* that the record holds.                                                  *)
C29_Witness ==
    /\ ret.op = "handle_scan"
    /\ ret.written
    /\ ret.threshold.some
    /\ Len(ret.value) > 0
    /\ Len(ret.value) < Len(ret.scanned)
    /\ HoldsRecord(cacheFile)
    /\ Stored.items = ret.scanned


----------------------------------------------------------------------------
(* Clock skew: claims checked under SpecCache.                             *)

(* load_cache was asked for the parameters of the record that the cache    *)
(* file holds.                                                             *)
LoadedMatching ==
    /\ Loaded
    /\ HoldsRecord(cacheFile)
    /\ cacheFile.readable
    /\ Stored.scan_path = ret.path
    /\ Stored.max_depth = ret.max_depth

(* C30: when the stored scan_time is later than the current system time,   *)
(* so that the elapsed time cannot be computed, load_cache skips the age   *)
(* check and serves the record, given matching parameters, however far in  *)
(* the future scan_time lies; the age check can only reject a record whose *)
(* scan_time is in the past.                                               *)
C30_FutureRecordIsServed ==
    LoadedMatching =>
        /\ (Stored.scan_time > now) => (ret.value = Some(Existing(Stored.items)))
        /\ (ret.value = NoneV) => (Stored.scan_time < now)

(* A record stamped more than 300 seconds after the present time of the    *)
(* clock was served.                                                       *)
C30_Witness ==
    /\ LoadedMatching
    /\ Stored.scan_time - now > CACHE_VALIDITY_SECONDS * TicksPerSecond
    /\ ret.value.some
    /\ Len(ret.value.value) > 0

====
